---- MODULE Spec2Model ----
(***************************************************************************)
(* A model of gribmanager/grib_manager.py: the lifecycle-managed wrappers  *)
(* around the decoding library's message, stream, index and key-iterator   *)
(* handles.  The decoding library (eccodes) is modelled by the state of    *)
(* its handles; every wrapper method is one action, and the calls a method *)
(* makes into the library are written to a log kept with the outcome of    *)
(* the last call.  The methods that compute from a message's keys alone   *)
(* (grid descriptor, array export, nearest points, interpolation, level   *)
(* predicates) are operators on the message's content, applied in SpecCalc *)
(* to messages drawn from bounded sets; SpecThreads runs the counter       *)
(* updates of concurrent threads as separate loads and stores.             *)
(***************************************************************************)
EXTENDS Integers, Sequences, FiniteSets, TLC

\* ------------------------------------------------------------------ bounds
\* messages stored in the file the wrappers are opened on
NumMsgs == 3
\* message handles the decoding library hands out in one behaviour
MaxHandles == 3
\* key iterators made in one behaviour
MaxIters == 1
\* key names a key iterator yields for a message
NumKeys == 2
\* nested with-scopes
MaxDepth == 2
\* values a key of a message under study can hold (its size is 0..MaxSize)
MaxSize == 2
\* grid points along one axis of a message under study
MaxPoints == 3
\* threads that construct and close wrappers at the same time
NumThreads == 2

\* ---------------------------------------------------------------- the file
\* The file's i-th message: its index keys and its grid section.  Angles are
\* in units of 1e-4 degree.  Message 1 has a consistent regular grid, message
\* 2 a regular grid whose last latitude does not fit its spacing, the others
\* are spectral (no regular grid).
UnitsPerDegree == 10000

Content(i) ==
  [ paramId  |-> IF i = 2 THEN 131 ELSE 130,
    level    |-> IF i <= 2 THEN 850 ELSE 500,
    typeOfLevel |-> IF i = 1 THEN "hybrid" ELSE IF i = 2 THEN "isobaricInhPa" ELSE "surface",
    hasLevel |-> TRUE,
    levelMissing |-> FALSE,
    hasPv    |-> (i = 1),
    nPv      |-> 2,
    hasValues |-> TRUE,
    packingType |-> "grid_simple",
    gridType |-> IF i <= 2 THEN "regular_ll" ELSE "sh",
    lat0 |-> 10 * UnitsPerDegree,
    lat1 |-> IF i = 2 THEN 13 * UnitsPerDegree ELSE 12 * UnitsPerDegree,
    dLat |-> 1 * UnitsPerDegree,
    dLatPositive |-> TRUE,
    nLat |-> 3,
    lon0 |-> 350 * UnitsPerDegree,
    lon1 |-> 10 * UnitsPerDegree,
    dLon |-> 10 * UnitsPerDegree,
    dLonNegative |-> FALSE,
    nLon |-> 3,
    latMinorLonMajor |-> FALSE ]

Abs(x) == IF x < 0 THEN -x ELSE x

\* numpy.isclose(a, b, atol=1e-4) with the default rtol=1e-5:
\* |a - b| <= atol + rtol * |b|; in whole units of 1e-4 degree that is
\* |a - b| - 1 <= floor(|b| / 100000)
IsClose(a, b) == Abs(a - b) - UnitsPerDegree \div 10000 <= Abs(b) \div 100000

\* GribMessage._get_regular_grid_info on a message of content c:
\* "None", "ValueError" or "info"
GetRegularGridInfo(c) ==
  LET dLat == Abs(c.dLat) * (IF c.dLatPositive THEN 1 ELSE -1)
      dLon == Abs(c.dLon) * (IF c.dLonNegative THEN -1 ELSE 1)
      lonRest == (c.lon0 + (c.nLon - 1) * dLon - c.lon1) % (360 * UnitsPerDegree)
  IN  IF ~(c.hasValues /\ c.packingType = "grid_simple" /\ c.gridType = "regular_ll")
        THEN "None"
      ELSE IF c.nLat <= 1 THEN "ValueError"
      ELSE IF c.nLon <= 1 THEN "ValueError"
      ELSE IF ~IsClose(c.lat0 + (c.nLat - 1) * dLat - c.lat1, 0) THEN "ValueError"
      ELSE IF ~(IsClose(lonRest, 0) \/ IsClose(lonRest, 360 * UnitsPerDegree))
        THEN "ValueError"
      ELSE "info"

\* GribMessage._four_nearest_points_func: the fast routine, or None
FourNearestPointsFunc(c) ==
  LET info == GetRegularGridInfo(c)
  IN  IF info = "ValueError" THEN "ValueError"
      ELSE IF info = "info" THEN "partial" ELSE "None"

\* ----------------------------------------------------------- grid geometry
Circle == 360 * UnitsPerDegree

\* the tuple _get_regular_grid_info returns for a grid it accepts
GridInfo(c) ==
  [ lat0 |-> c.lat0, lat1 |-> c.lat1,
    dLat |-> Abs(c.dLat) * (IF c.dLatPositive THEN 1 ELSE -1), nLat |-> c.nLat,
    lon0 |-> c.lon0, lon1 |-> c.lon1,
    dLon |-> Abs(c.dLon) * (IF c.dLonNegative THEN -1 ELSE 1), nLon |-> c.nLon,
    latMajor |-> ~c.latMinorLonMajor ]

\* self[gk.VALUES]: the value stored at index x (from 0) of the raw sequence
StoredValue(x) == 10 * (x + 1)
Values(c) == [k \in 1..(c.nLat * c.nLon) |-> StoredValue(k - 1)]

\* numpy.linspace(a, b, num): a + k * (b - a) / (num - 1) for k = 0..num-1,
\* as numerators over the denominator num - 1
LinSpace(a, b, num) ==
  [num |-> [k \in 1..num |-> a * (num - 1) + (k - 1) * (b - a)], den |-> num - 1]

\* GribMessage.to_numpy_array on a live message of content c
ToNumpyArray(c) ==
  LET \* numpy on sequences of rows: reshape((m, n)), .T, flip(axis=0),
      \* flip(axis=1), pad(((0, 0), (0, 1)), mode='wrap')
      Reshape(v, m, n) == [r \in 1..m |-> [q \in 1..n |-> v[(r - 1) * n + q]]]
      Transpose(d) == [q \in 1..Len(d[1]) |-> [r \in 1..Len(d) |-> d[r][q]]]
      FlipRows(d) == [r \in 1..Len(d) |-> d[Len(d) + 1 - r]]
      FlipColumns(d) ==
        [r \in 1..Len(d) |-> [q \in 1..Len(d[r]) |-> d[r][Len(d[r]) + 1 - q]]]
      PadWrap(d) == [r \in 1..Len(d) |-> Append(d[r], d[r][1])]
      info == GetRegularGridInfo(c)
      g == GridInfo(c)
      m == IF g.latMajor THEN g.nLat ELSE g.nLon
      n == IF g.latMajor THEN g.nLon ELSE g.nLat
      d0 == Reshape(Values(c), m, n)
      d1 == IF g.latMajor THEN d0 ELSE Transpose(d0)
      \* if d_lat < 0: lat0, lat1 = lat1, lat0; d_lat = -d_lat; flip axis 0
      lat0 == IF g.dLat < 0 THEN g.lat1 ELSE g.lat0
      lat1 == IF g.dLat < 0 THEN g.lat0 ELSE g.lat1
      d2 == IF g.dLat < 0 THEN FlipRows(d1) ELSE d1
      \* if d_lon < 0: lon0, lon1 = lon1, lon0; d_lon = -d_lon; flip axis 1
      lon0 == IF g.dLon < 0 THEN g.lon1 ELSE g.lon0
      dLon == Abs(g.dLon)
      d3 == IF g.dLon < 0 THEN FlipColumns(d2) ELSE d2
      rest == (g.nLon * dLon) % Circle
      circular == IsClose(rest, 0) \/ IsClose(rest, Circle)
      nLon == IF circular THEN g.nLon + 1 ELSE g.nLon
      d4 == IF circular THEN PadWrap(d3) ELSE d3
      first == ((lon0 + 180 * UnitsPerDegree) % Circle) - 180 * UnitsPerDegree
  IN  IF info = "None" THEN [res |-> "ok", shape |-> "None"]
      ELSE IF info = "ValueError" THEN [res |-> "ValueError", shape |-> "none"]
      ELSE [res |-> "ok", shape |-> "arrays", data |-> d4, circular |-> circular,
            lat |-> LinSpace(lat0, lat1, g.nLat),
            lon |-> LinSpace(first, first + (nLon - 1) * dLon, nLon)]

\* ---------------------------------------------------- four nearest points
\* The grid point in the i-th row of latitude and the j-th column of
\* longitude (from 0, in scanning order) as the nearest-point routines give
\* it: latitude, longitude in [0, 360), index in the raw values.
GridPoint(c, i, j) ==
  LET g == GridInfo(c)
  IN  [ lat |-> g.lat0 + i * g.dLat,
        lon |-> (g.lon0 + j * g.dLon) % Circle,
        index |-> IF g.latMajor THEN i * g.nLon + j ELSE j * g.nLat + i ]

\* the cells of the grid, by their first row and column, that have the
\* grid point (i, j) as a corner
Cells(c, i, j) ==
  { cell \in ({i - 1, i} \cap (0..(c.nLat - 2))) \X ({j - 1, j} \cap (0..(c.nLon - 2))) : TRUE }

\* orders in which the decoding library may list the four corners of a
\* cell, each a permutation of (row, column), (row, column + 1),
\* (row + 1, column), (row + 1, column + 1)
Orders == { <<1, 2, 3, 4>>, <<3, 4, 1, 2>>, <<1, 2, 4, 3>>, <<4, 1, 3, 2>> }

\* ecc.codes_grib_find_nearest(id, lat, lon, npoints=4): the corners of a
\* cell around the point, in the library's order
FindNearest(c, cell, order) ==
  LET corners == << GridPoint(c, cell[1], cell[2]), GridPoint(c, cell[1], cell[2] + 1),
                    GridPoint(c, cell[1] + 1, cell[2]), GridPoint(c, cell[1] + 1, cell[2] + 1) >>
  IN  [k \in 1..4 |-> corners[order[k]]]

\* sorted(points, key=lambda point: point.lat): ascending, and stable
SortedByLat(points) ==
  LET place(k) == 1 + Cardinality({n \in 1..Len(points) :
                         \/ points[n].lat < points[k].lat
                         \/ points[n].lat = points[k].lat /\ n < k})
  IN  [q \in 1..Len(points) |-> points[CHOOSE k \in 1..Len(points) : place(k) = q]]

\* A pair of points is a tuple object: id tells one tuple object from
\* another.
\* the decoding library's routine: (points[0], points[1]), (points[2], points[3])
\* of the points sorted by latitude, in two new tuples
EccodesRoutine(c, cell, order, made) ==
  LET points == SortedByLat(FindNearest(c, cell, order))
  IN  << [id |-> made + 1, items |-> <<points[1], points[2]>>],
         [id |-> made + 2, items |-> <<points[3], points[4]>>] >>

\* utils.four_nearest_points_in_rectangular_grid: the corners of a cell
\* around the point as ((a, b), (c, d)), a and b on the lower latitude, a
\* and c on the same longitude
FourNearestPointsInRectangularGrid(c, cell) ==
  LET low == IF GridInfo(c).dLat < 0 THEN cell[1] + 1 ELSE cell[1]
      high == IF GridInfo(c).dLat < 0 THEN cell[1] ELSE cell[1] + 1
  IN  << [id |-> 1, items |-> <<GridPoint(c, low, cell[2]), GridPoint(c, low, cell[2] + 1)>>],
         [id |-> 2, items |-> <<GridPoint(c, high, cell[2]), GridPoint(c, high, cell[2] + 1)>>] >>

\* point.index for point in <pair of pairs>: the loop yields the two
\* pairs, and the attribute index of a tuple is its method index, bound to
\* that tuple; two bound methods are equal only if bound to the same object
TupleIndex(pair) == [method |-> "tuple.index", self |-> pair.id]

\* GribMessage.get_four_nearest_points on a live message of content c; fast:
\* the message has the descriptor-driven routine; cellFast, cellEcc and order:
\* the cell either routine picks, and the library's order
GetFourNearestPoints(c, fast, check, useEcc, cellFast, cellEcc, order) ==
  IF ~useEcc /\ fast
    THEN LET points == FourNearestPointsInRectangularGrid(c, cellFast)
             indices_eccodes ==
               {TupleIndex(point) : point \in
                  {EccodesRoutine(c, cellEcc, order, 2)[k] : k \in 1..2}}
             indices == {TupleIndex(point) : point \in {points[k] : k \in 1..2}}
         IN  IF check /\ indices # indices_eccodes
               THEN [res |-> "AssertionError", points |-> <<>>]
               ELSE [res |-> "ok", points |-> points]
    ELSE [res |-> "ok", points |-> EccodesRoutine(c, cellEcc, order, 0)]

RECURSIVE GCD(_, _)
GCD(x, y) == IF y = 0 THEN x ELSE GCD(y, x % y)
\* the fraction n / d (d > 0) in lowest terms
Fraction(n, d) ==
  LET k == GCD(Abs(n), d) IN [n |-> n \div k, d |-> d \div k]

\* utils.midpoint(x, y, p): the value a fraction p of the way from x to y
Midpoint(x, y, p) == Fraction(x * p.d + p.n * (y - x), p.d)

\* utils.Longitude: the difference of two longitudes on the circle, in
\* [-180, 180)
LongitudeDifference(x, y) ==
  ((x - y + 180 * UnitsPerDegree) % Circle) - 180 * UnitsPerDegree

\* utils.linear_interpolation(x, ((xa, va), (xb, vb))) for longitudes x, xa
\* and xb: va + (vb - va) * (x - xa) / (xb - xa)
LinearInterpolation(x, xa, va, xb, vb) ==
  LET span == LongitudeDifference(xb, xa)
      t == Fraction((IF span < 0 THEN -1 ELSE 1) * LongitudeDifference(x, xa), Abs(span))
  IN  IF span = 0 THEN [res |-> "ZeroDivisionError"]
      ELSE [res |-> "ok",
            value |-> Fraction(va.n * vb.d * t.d + t.n * (vb.n * va.d - va.n * vb.d),
                               va.d * vb.d * t.d)]

\* GribMessage.get_value_at(lat, lon) on a live message of content c
GetValueAt(c, fast, lat, lon, cellFast, cellEcc, order) ==
  LET points == GetFourNearestPoints(c, fast, FALSE, FALSE, cellFast, cellEcc, order).points
      a == points[1].items[1]
      b == points[1].items[2]
      cc == points[2].items[1]
      d == points[2].items[2]
      p == Fraction(Abs(lat - a.lat), Abs(cc.lat - a.lat))
      v_ac == Midpoint(StoredValue(a.index), StoredValue(cc.index), p)
      v_bd == Midpoint(StoredValue(b.index), StoredValue(d.index), p)
  IN  IF cc.lat = a.lat THEN [res |-> "ZeroDivisionError"]
      ELSE LinearInterpolation(lon, a.lon, v_ac, b.lon, v_bd)

\* ------------------------------------------------------------------- state
VARIABLES
  gfile,    \* the GribFile object: _file, _headers_only, _cache
  stream,   \* its byte stream: read position, end reached, closed, close() calls
  gindex,   \* the GribFileIndexedBy object: _id, _keys, _cache, its class
  nindex,   \* the library's index: state and codes_index_release calls
  msgs,     \* the GribMessage wrappers, by the handle each was made for
  nat,      \* the library's message handles: state, message, codes_release calls
  kits,     \* the _GribMessageKeyIterator objects
  knat,     \* the library's key iterators: state, place, delete calls
  ctr,      \* the module's debug counters
  uar,      \* library calls made on a released handle or a closed stream
  stack,    \* the with-scopes entered and not yet left, innermost last
  exc,      \* an exception is propagating out of a with-body
  last,     \* the client's last call: what, on what, outcome, library calls
  calc,     \* a message's content and the last method computed from it alone
  thr       \* the threads: each one's place in its code and the counter value
            \* it has loaded

vars == <<gfile, stream, gindex, nindex, msgs, nat, kits, knat, ctr, uar, stack, exc, last,
          calc, thr>>

Handles == 1..MaxHandles
Positions == 1..NumMsgs
Iters == 1..MaxIters

Obj(kind, n) == [kind |-> kind, n |-> n]
TheFile == Obj("file", 0)
TheIndex == Obj("index", 0)
Msg(h) == Obj("msg", h)
Kit(k) == Obj("kit", k)
NoObj == Obj("", 0)

Call(c, k, v) == [c |-> c, k |-> k, v |-> v]

NoMsg == [st |-> "none", id |-> 0, from |-> "", values |-> FALSE,
          fast |-> FALSE, class |-> "", headersOnly |-> FALSE]
NoKit == [st |-> "none", id |-> 0, msg |-> 0]

\* the argument of a lookup: a scalar or a tuple
Scalar(x) == [isTuple |-> FALSE, x |-> x, v |-> <<>>]
Tuple(v) == [isTuple |-> TRUE, x |-> 0, v |-> v]
NoArg == Tuple(<<>>)

\* In the methods below a set binding (w1 \in {e}) names the state a call
\* leaves, evaluated once.
\* Everything a method can change, with the outcome of the running call:
\* res is "ok" or the exception raised; ret the objects returned and shape
\* how ("object", "list", "bool", "value", "none"); bool a returned truth
\* value; h the handle the library returned last (0: None); log the library
\* calls made; closes the objects whose close() was called; coll the list a
\* lookup had collected when it failed.  sel and cursor are the library's
\* selection on the index and its place in the matching messages: every
\* lookup selects all keys anew before it reads either, so they are kept
\* for the running call only.
World ==
  [ gfile |-> gfile, stream |-> stream, gindex |-> gindex, nindex |-> nindex,
    msgs |-> msgs, nat |-> nat, kits |-> kits, knat |-> knat,
    ctr |-> ctr, uar |-> uar,
    sel |-> <<>>, cursor |-> 0, h |-> 0,
    res |-> "ok", ret |-> <<>>, shape |-> "none", bool |-> FALSE,
    log |-> <<>>, closes |-> <<>>, coll |-> <<>> ]

NextHandle == 1 + Cardinality({h \in Handles : nat[h].st # "unalloc"})

\* whether the object still owns its resource
Live(o) ==
  IF o.kind = "file" THEN gfile.file # "None" /\ ~stream.closed
  ELSE IF o.kind = "index" THEN gindex.id # 0
  ELSE IF o.kind = "msg" THEN msgs[o.n].id # 0
  ELSE IF o.kind = "kit" THEN kits[o.n].id # 0
  ELSE FALSE

\* the state a call leaves, and in last the call (env: what the environment
\* chose for it) with what held before it
Commit(world, op, obj, arg, env) ==
  \E w \in {world} :
    /\ gfile' = w.gfile
    /\ stream' = w.stream
    /\ gindex' = w.gindex
    /\ nindex' = w.nindex
    /\ msgs' = w.msgs
    /\ nat' = w.nat
    /\ kits' = w.kits
    /\ knat' = w.knat
    /\ ctr' = w.ctr
    /\ uar' = w.uar
    /\ calc' = calc
    /\ thr' = thr
    /\ last' = [op |-> op, obj |-> obj, arg |-> arg, env |-> env,
                res |-> w.res, ret |-> w.ret,
                shape |-> w.shape, bool |-> w.bool, log |-> w.log,
                closes |-> w.closes, coll |-> w.coll,
                pre |-> [live |-> Live(obj), ctr |-> ctr, handles |-> NextHandle - 1,
                         pos |-> stream.pos, eof |-> stream.eof, exc |-> exc]]

Logged(w, c, k, v) == [w EXCEPT !.log = Append(@, Call(c, k, v))]
Raise(w, e) == [w EXCEPT !.res = e]
Return(w, ret, shape) == [w EXCEPT !.ret = ret, !.shape = shape]
CloseCalled(w, o) == [w EXCEPT !.closes = Append(@, o)]

\* ------------------------------------------------------- GribAbstractItem
\* Every wrapper class calls super().__init__() first; the bases taken from
\* utils define no constructor of their own here, so the call is
\* GribAbstractItem.__init__.
\* GribAbstractItem.__init__: self._id = None; _grib_items += 1
GribAbstractItem_init(w) == [w EXCEPT !.ctr.grib_items = @ + 1]

\* GribAbstractItem.__enter__: return self
GribAbstractItem_enter(w, o) == Return(w, <<o>>, "object")

\* ------------------------------------------------------------ GribMessage
\* ecc.codes_release(h)
codes_release(w, h) ==
  [Logged(w, "codes_release", "", h) EXCEPT
      !.nat[h].st = "released",
      !.nat[h].releases = @ + 1,
      !.uar = @ \cup (IF w.nat[h].st = "released" THEN {"message"} ELSE {})]

\* a library call that reads message handle h (codes_is_defined, codes_get,
\* codes_get_size, codes_grib_find_nearest, ...)
codes_read(w, h) ==
  [w EXCEPT !.uar = @ \cup (IF w.nat[h].st = "released" THEN {"message"} ELSE {})]

\* GribMessage.__init__(message_id, grib_file, headers_only) for the handle h
GribMessage_init(w, h, from, class, headersOnly) ==
  LET w1 == GribAbstractItem_init(w)
      w2 == [w1 EXCEPT !.ctr.grib_messages = @ + 1]
      f  == IF headersOnly THEN "None" ELSE FourNearestPointsFunc(Content(w.nat[h].pos))
      m  == [st |-> IF f = "ValueError" THEN "orphan" ELSE "held",
             id |-> h, from |-> from, values |-> FALSE,
             fast |-> (f = "partial"), class |-> class, headersOnly |-> headersOnly]
      w3 == [(IF headersOnly THEN w2 ELSE codes_read(w2, h)) EXCEPT !.msgs[h] = m]
  IN  IF f = "ValueError" THEN Raise(w3, "ValueError") ELSE w3

\* a close that releases the handle and keeps self._id
GribMessage_close_KeepsId(w, h) ==
  IF w.msgs[h].id # 0
    THEN [codes_release(CloseCalled(w, Msg(h)), w.msgs[h].id) EXCEPT
             !.ctr.grib_messages_released = @ + 1]
    ELSE CloseCalled(w, Msg(h))

\* GribMessage.close
GribMessage_close(w, h) ==
  IF w.msgs[h].id # 0
    THEN [codes_release(CloseCalled(w, Msg(h)), w.msgs[h].id) EXCEPT
             !.msgs[h].id = 0,
             !.ctr.grib_messages_released = @ + 1]
    ELSE CloseCalled(w, Msg(h))

\* the message the wrapper's handle stands for
MsgContent(w, h) == Content(w.nat[w.msgs[h].id].pos)

\* ecc.codes_is_defined and ecc.codes_get_size for the keys the model asks for
Defined(c, key) ==
  IF key = "level" THEN c.hasLevel
  ELSE IF key = "pv" THEN c.hasPv
  ELSE IF key = "values" THEN c.hasValues
  ELSE key = "typeOfLevel"

Size(c, key) ==
  IF key = "values" THEN c.nLat * c.nLon
  ELSE IF key = "pv" THEN c.nPv
  ELSE 1

\* ecc.codes_is_missing: the key's value is flagged MISSING
Missing(c, key) == key = "level" /\ c.levelMissing

\* GribMessage.__getitem__ on a live message of content c: KeyError for a
\* key that is not defined; a warning, and no more, for a MISSING value;
\* codes_get_array if codes_get_size is more than one, else codes_get
GetItem(c, key) ==
  IF ~Defined(c, key)
    THEN [res |-> "KeyError", shape |-> "none", warned |-> FALSE]
    ELSE [res |-> "ok",
          shape |-> IF Size(c, key) > 1 THEN "array" ELSE "value",
          warned |-> Missing(c, key)]

\* GribMessage.__contains__
GribMessage_contains(w, h, key) ==
  IF w.msgs[h].id = 0 THEN Raise(w, "ValueError")
  ELSE [codes_read(w, w.msgs[h].id) EXCEPT
           !.bool = Defined(MsgContent(w, h), key), !.shape = "bool"]

\* GribMessage.__getitem__: an array if the key has more than one value
GribMessage_getitem(w, h, key) ==
  LET w1 == GribMessage_contains(w, h, key)
      r  == GetItem(MsgContent(w, h), key)
  IN  IF w1.res # "ok" THEN w1
      ELSE IF r.res # "ok" THEN Raise([w1 EXCEPT !.shape = "none"], r.res)
      ELSE [(IF r.warned THEN Logged(w1, "logger.warning", key, 0) ELSE w1) EXCEPT
               !.bool = FALSE, !.shape = r.shape]

\* utils.AbstractDictionary.get(key, default=None): the default for a key
\* that is not defined
AbstractDictionary_get(w, h, key) ==
  LET w1 == GribMessage_getitem(w, h, key)
  IN  IF w1.res = "KeyError" THEN [w1 EXCEPT !.res = "ok", !.shape = "default"] ELSE w1

\* GribMessage.to_numpy_array
GribMessage_to_numpy_array(w, h) ==
  IF w.msgs[h].id = 0 THEN Raise(w, "ValueError")
  ELSE LET info == GetRegularGridInfo(MsgContent(w, h))
           w1 == codes_read(w, w.msgs[h].id)
       IN  IF info = "None" THEN Return(w1, <<>>, "None")
           ELSE IF info = "ValueError" THEN Raise(w1, "ValueError")
           ELSE Return(w1, <<>>, "arrays")

\* GribMessage.get_four_nearest_points(lat, lon, check_assertion,
\* use_eccodes_routine): the fast routine, when the message has one, reads
\* nothing of the message; the cross-check compares the index methods of
\* the two routines' tuples, which are never equal (see TupleIndex)
GribMessage_get_four_nearest_points(w, h, check, useEcc) ==
  IF ~useEcc /\ w.msgs[h].fast
    THEN IF check /\ w.msgs[h].id = 0 THEN Raise(w, "ValueError")
         ELSE IF check THEN Raise(codes_read(w, w.msgs[h].id), "AssertionError")
         ELSE Return(w, <<>>, "points")
  ELSE IF w.msgs[h].id = 0 THEN Raise(w, "ValueError")
  ELSE Return(codes_read(w, w.msgs[h].id), <<>>, "points")

\* GribMessage.get_value_by_index: self._values is read once and kept
GribMessage_get_value_by_index(w, h) ==
  IF w.msgs[h].values THEN Return(w, <<>>, "value")
  ELSE LET w1 == GribMessage_getitem(w, h, "values")
       IN  IF w1.res # "ok" THEN w1
           ELSE [w1 EXCEPT !.msgs[h].values = TRUE, !.shape = "value"]

\* GribMessage.get_value_at
GribMessage_get_value_at(w, h) ==
  LET w1 == GribMessage_get_four_nearest_points(w, h, FALSE, FALSE)
  IN  IF w1.res # "ok" THEN w1
      ELSE GribMessage_get_value_by_index([w1 EXCEPT !.shape = "none"], h)

\* what is_level_hybrid, is_level_isobaric and is_level_surface answer on a
\* live message of content c
\* gk.LEVEL in self and self.get(gk.TYPE_OF_LEVEL) == gk.HYBRID_LEVEL_TYPE
\* and gk.PV in self
IsLevelHybrid(c) ==
  Defined(c, "level") /\ c.typeOfLevel = "hybrid" /\ Defined(c, "pv")

\* gk.LEVEL in self and self.get(gk.TYPE_OF_LEVEL) in [ISOBARIC_IN_HPA,
\* ISOBARIC_IN_PA]
IsLevelIsobaric(c) ==
  Defined(c, "level") /\ c.typeOfLevel \in {"isobaricInhPa", "isobaricInPa"}

\* self.get(gk.TYPE_OF_LEVEL) == gk.SURFACE_LEVEL
IsLevelSurface(c) == c.typeOfLevel = "surface"

\* GribMessage.is_level_hybrid, is_level_isobaric, is_level_surface
GribMessage_is_level_hybrid(w, h) ==
  IF w.msgs[h].id = 0 THEN Raise(w, "ValueError")
  ELSE [codes_read(w, w.msgs[h].id) EXCEPT
           !.bool = IsLevelHybrid(MsgContent(w, h)), !.shape = "bool"]

GribMessage_is_level_isobaric(w, h) ==
  IF w.msgs[h].id = 0 THEN Raise(w, "ValueError")
  ELSE [codes_read(w, w.msgs[h].id) EXCEPT
           !.bool = IsLevelIsobaric(MsgContent(w, h)), !.shape = "bool"]

GribMessage_is_level_surface(w, h) ==
  LET w1 == AbstractDictionary_get(w, h, "typeOfLevel")
  IN  IF w1.res # "ok" THEN w1
      ELSE [w1 EXCEPT !.bool = IsLevelSurface(MsgContent(w, h)), !.shape = "bool"]

\* ------------------------------------------------ _GribMessageKeyIterator
\* ecc.codes_keys_iterator_new(message id, namespace) and codes_skip_duplicates
codes_keys_iterator_new(w, k, h) ==
  [Logged(codes_read(w, h), "codes_keys_iterator_new", "", h) EXCEPT
      !.knat[k] = [st |-> "live", pos |-> 0, deletes |-> 0]]

\* ecc.codes_keys_iterator_next(id): whether there is a next key name.  The
\* library's iterator walks the message handle it was made on; once that is
\* released the call reads freed memory, and ub is what comes of it: a key
\* name, the end, or a crash.
codes_keys_iterator_next(w, k, ub) ==
  LET w1 == Logged(w, "codes_keys_iterator_next", "", k)
  IN  IF w.nat[w.kits[k].msg].st = "released"
        THEN [w1 EXCEPT !.uar = @ \cup {"iterator"},
                        !.res = IF ub = "crash" THEN "Crash" ELSE "ok",
                        !.bool = (ub = "name")]
      ELSE IF w.knat[k].pos < NumKeys
        THEN [w1 EXCEPT !.knat[k].pos = @ + 1, !.bool = TRUE]
      ELSE [w1 EXCEPT !.bool = FALSE]

\* ecc.codes_keys_iterator_delete(id): the iterator's place goes with it
codes_keys_iterator_delete(w, k) ==
  [Logged(w, "codes_keys_iterator_delete", "", k) EXCEPT
      !.knat[k].st = "released",
      !.knat[k].pos = 0,
      !.knat[k].deletes = @ + 1,
      !.uar = @ \cup (IF w.knat[k].st = "released" THEN {"iterator"} ELSE {})]

\* _GribMessageKeyIterator.__init__(grib_message): the k-th iterator made
KeyIterator_init(w, k, h) ==
  LET w1 == [GribAbstractItem_init(w) EXCEPT !.kits[k] = [st |-> "held", id |-> 0, msg |-> h]]
  IN  IF w.msgs[h].id = 0
        THEN Raise([w1 EXCEPT !.kits[k].st = "orphan"], "ValueError")
      ELSE Return([codes_keys_iterator_new(w1, k, w.msgs[h].id) EXCEPT !.kits[k].id = k],
                  <<Kit(k)>>, "object")

\* GribMessage.__iter__: return _GribMessageKeyIterator(self)
GribMessage_iter(w, h, k) == KeyIterator_init(w, k, h)

\* a close that deletes the library's iterator and keeps self._id
KeyIterator_close_KeepsId(w, k) ==
  IF w.kits[k].id # 0
    THEN codes_keys_iterator_delete(CloseCalled(w, Kit(k)), w.kits[k].id)
    ELSE CloseCalled(w, Kit(k))

\* _GribMessageKeyIterator.close
KeyIterator_close(w, k) ==
  IF w.kits[k].id # 0
    THEN [codes_keys_iterator_delete(CloseCalled(w, Kit(k)), w.kits[k].id) EXCEPT
             !.kits[k].id = 0]
    ELSE CloseCalled(w, Kit(k))

\* _GribMessageKeyIterator.__next__: the next key name, or close and stop
KeyIterator_next(w, k, ub) ==
  IF w.kits[k].id = 0 THEN Raise(w, "ValueError")
  ELSE CHOOSE r \in
    { IF w1.res # "ok" THEN w1
      ELSE IF w1.bool
        THEN Return([w1 EXCEPT !.bool = FALSE], <<Obj("key", w1.knat[k].pos)>>, "value")
      ELSE Raise(KeyIterator_close(w1, k), "StopIteration")
      : w1 \in {codes_keys_iterator_next(w, k, ub)} } : TRUE

\* --------------------------------------------------------------- GribFile
\* GribFile.__init__: opening the stream may fail with an I/O error
GribFile_init(w, headersOnly, cache, opens) ==
  LET w0 == [w EXCEPT !.gfile = [made |-> TRUE, dead |-> FALSE, file |-> "None",
                                 headersOnly |-> FALSE, cache |-> FALSE]]
      w1 == GribAbstractItem_init(w0)
      w2 == [w1 EXCEPT !.gfile.headersOnly = headersOnly, !.gfile.cache = cache]
  IN  IF opens
        THEN [Logged(w2, "open", "", 0) EXCEPT
                 !.gfile.file = "stream",
                 !.stream = [pos |-> 0, eof |-> FALSE, closed |-> FALSE, closes |-> 0],
                 !.ctr.grib_files = @ + 1]
        ELSE Raise(Logged(w2, "open", "", 0), "OSError")

\* a close of the file that also releases the messages read from it
GribFile_close_ReleasesMessages(w) ==
  IF w.gfile.file # "None" /\ ~w.stream.closed
    THEN [Logged(CloseCalled(w, TheFile), "close", "", 0) EXCEPT
             !.stream.closed = TRUE,
             !.stream.closes = @ + 1,
             !.ctr.grib_files_closed = @ + 1,
             !.nat = [h \in Handles |->
                        IF w.msgs[h].from = "file" /\ w.nat[h].st = "live"
                          THEN [w.nat[h] EXCEPT !.st = "released"] ELSE w.nat[h]]]
    ELSE CloseCalled(w, TheFile)

\* GribFile.close
GribFile_close(w) ==
  IF w.gfile.file # "None" /\ ~w.stream.closed
    THEN [Logged(CloseCalled(w, TheFile), "close", "", 0) EXCEPT
             !.stream.closed = TRUE,
             !.stream.closes = @ + 1,
             !.ctr.grib_files_closed = @ + 1]
    ELSE CloseCalled(w, TheFile)

\* an __iter__ that rewinds the stream
GribFile_iter_Rewinds(w) == Return([w EXCEPT !.stream.pos = 0], <<TheFile>>, "object")

\* GribFile.__iter__: return self
GribFile_iter(w) == Return(w, <<TheFile>>, "object")

\* ecc.codes_grib_new_from_file(stream, headers_only): the handle of the next
\* message of the stream (h = 0, None, at its end), or a decoding error
\* (logged with -1: the call returns nothing)
codes_grib_new_from_file(w, fails) ==
  LET h  == 1 + Cardinality({x \in Handles : w.nat[x].st # "unalloc"})
      w1 == [w EXCEPT !.uar = @ \cup (IF w.stream.closed THEN {"stream"} ELSE {})]
  IN  IF fails
        THEN Raise(Logged(w1, "codes_grib_new_from_file", "", -1), "CodesInternalError")
      ELSE IF w.stream.pos >= NumMsgs
        THEN [Logged(w1, "codes_grib_new_from_file", "", 0) EXCEPT
                 !.stream.eof = TRUE, !.h = 0]
      ELSE [Logged(w1, "codes_grib_new_from_file", "", h) EXCEPT
               !.stream.pos = @ + 1,
               !.nat[h] = [st |-> "live", pos |-> w.stream.pos + 1, releases |-> 0],
               !.h = h]

\* GribFile.__next__
GribFile_next(w, fails) ==
  IF w.stream.closed THEN Raise(w, "ValueError")
  ELSE CHOOSE r \in
    { IF w1.res # "ok" THEN w1
      ELSE IF w1.h = 0 THEN Raise(w1, "StopIteration")
      ELSE CHOOSE r2 \in
        { IF w2.res = "ok" THEN Return(w2, <<Msg(w1.h)>>, "object") ELSE w2
          : w2 \in {GribMessage_init(w1, w1.h, "file",
                      IF w.gfile.cache THEN "GribMessageWithCache" ELSE "GribMessage",
                      w.gfile.headersOnly)} } : TRUE
      : w1 \in {codes_grib_new_from_file(w, fails)} } : TRUE

\* ------------------------------------------------------- GribFileIndexedBy
\* the value a message has for an index key
KeyValue(c, key) == IF key = "paramId" THEN c.paramId ELSE c.level

\* the position of key in the key tuple
KeyPos(keys, key) == CHOOSE k \in 1..Len(keys) : keys[k] = key

\* the file's messages the library's index yields for a selection, in file order
RECURSIVE MatchesFrom(_, _, _)
MatchesFrom(keys, sel, i) ==
  IF i > NumMsgs THEN <<>>
  ELSE (IF \A k \in 1..Len(keys) : KeyValue(Content(i), keys[k]) = sel[k]
          THEN <<i>> ELSE <<>>) \o MatchesFrom(keys, sel, i + 1)

Matches(keys, sel) == MatchesFrom(keys, sel, 1)

\* ecc.codes_index_new_from_file(filename, keys)
codes_index_new_from_file(w, keys, fails) ==
  LET w1 == Logged(w, "codes_index_new_from_file", "", Len(keys))
  IN  IF fails THEN Raise(w1, "CodesInternalError")
      ELSE [w1 EXCEPT !.nindex = [st |-> "live", releases |-> 0]]

\* ecc.codes_index_select(id, key, value): narrows the selection and rewinds
codes_index_select(w, key, value) ==
  [Logged(w, "codes_index_select", key, value) EXCEPT
      !.sel = [k \in 1..Len(w.gindex.keys) |->
                 IF k = KeyPos(w.gindex.keys, key) THEN value
                 ELSE IF k <= Len(w.sel) THEN w.sel[k] ELSE 0],
      !.cursor = 0,
      !.uar = @ \cup (IF w.nindex.st = "released" THEN {"index"} ELSE {})]

\* ecc.codes_new_from_index(id): the handle of the next matching message
\* (h = 0, None, after the last), or a decoding error
codes_new_from_index(w, fails) ==
  LET m  == Matches(w.gindex.keys, w.sel)
      h  == 1 + Cardinality({x \in Handles : w.nat[x].st # "unalloc"})
      w1 == [w EXCEPT !.uar = @ \cup (IF w.nindex.st = "released" THEN {"index"} ELSE {})]
  IN  IF fails
        THEN Raise(Logged(w1, "codes_new_from_index", "", -1), "CodesInternalError")
      ELSE IF w.cursor >= Len(m)
        THEN [Logged(w1, "codes_new_from_index", "", 0) EXCEPT !.h = 0]
      ELSE [Logged(w1, "codes_new_from_index", "", h) EXCEPT
               !.cursor = @ + 1,
               !.nat[h] = [st |-> "live", pos |-> m[w.cursor + 1], releases |-> 0],
               !.h = h]

\* ecc.codes_index_release(id)
codes_index_release(w) ==
  [Logged(w, "codes_index_release", "", 0) EXCEPT
      !.nindex.st = "released",
      !.nindex.releases = @ + 1,
      !.uar = @ \cup (IF w.nindex.st = "released" THEN {"index"} ELSE {})]

\* GribFileIndexedBy.__init__(filename, *keys, cache=)
GribFileIndexedBy_init(w, class, keys, cache, fails) ==
  LET w0 == [w EXCEPT !.gindex = [made |-> TRUE, dead |-> FALSE, id |-> 0, keys |-> <<>>,
                                  cache |-> FALSE, class |-> class]]
      w1 == GribAbstractItem_init(w0)
  IN  IF Len(keys) = 0 THEN Raise(w1, "Exception")
      ELSE LET w2 == [w1 EXCEPT !.gindex.keys = keys, !.gindex.cache = cache]
               w3 == codes_index_new_from_file(w2, keys, fails)
           IN  IF w3.res # "ok" THEN w3
               ELSE [w3 EXCEPT !.gindex.id = 1, !.ctr.grib_indices = @ + 1]

\* a close that releases the index whether or not self._id is set
GribFileIndexedBy_close_Unguarded(w) ==
  [codes_index_release(CloseCalled(w, TheIndex)) EXCEPT
      !.gindex.id = 0,
      !.ctr.grib_indices_released = @ + 1]

\* GribFileIndexedBy.close
GribFileIndexedBy_close(w) ==
  IF w.gindex.id # 0
    THEN [codes_index_release(CloseCalled(w, TheIndex)) EXCEPT
             !.gindex.id = 0,
             !.ctr.grib_indices_released = @ + 1]
    ELSE CloseCalled(w, TheIndex)

\* utils.ensure_tuple: a scalar becomes a tuple of one element
ensure_tuple(a) == IF a.isTuple THEN a.v ELSE <<a.x>>

\* for key, index in zip(self._keys, index): codes_index_select(self.get_id(), ...)
RECURSIVE SelectAll(_, _, _)
SelectAll(w, index, k) ==
  IF k > Len(w.gindex.keys) THEN w
  ELSE IF w.gindex.id = 0 THEN Raise(w, "ValueError")
  ELSE CHOOSE r \in
    { SelectAll(w1, index, k + 1)
      : w1 \in {codes_index_select(w, w.gindex.keys[k], index[k])} } : TRUE

\* for msg in value: msg.close()
RECURSIVE CloseAll(_, _, _)
CloseAll(w, value, k) ==
  IF k > Len(value) THEN w
  ELSE CHOOSE r \in
    { CloseAll(w1, value, k + 1) : w1 \in {GribMessage_close(w, value[k])} } : TRUE

\* the wrappers of value are dropped by the failed call: nothing refers to
\* them but the exception's traceback
Dropped(w, value) ==
  [w EXCEPT !.coll = value,
            !.msgs = [h \in Handles |->
      IF \E k \in 1..Len(value) : value[k] = h
        THEN [w.msgs[h] EXCEPT !.st = "orphan"] ELSE w.msgs[h]]]

\* an except clause that closes nothing
Rollback_ClosesNothing(w, value) == Dropped(w, value)

\* except Exception as e: for msg in value: msg.close(); raise e
Rollback(w, value) == Dropped(CloseAll(w, value, 1), value)

\* _GribMessagesFromIndexGenerator.__next__, the n-th of the running lookup;
\* the library's call fails when n = failAt
MessagesFromIndex_next(w, n, failAt) ==
  IF w.gindex.id = 0 THEN Raise(w, "ValueError")
  ELSE CHOOSE r \in
    { IF w1.res # "ok" THEN w1
      ELSE IF w1.h = 0 THEN Raise(w1, "StopIteration")
      ELSE GribMessage_init(w1, w1.h, "index",
             IF w.gindex.cache THEN "GribMessageWithCache" ELSE "GribMessage", FALSE)
      : w1 \in {codes_new_from_index(w, n = failAt)} } : TRUE

\* the try statement of GribFileIndexedBy.__getitem__: drain the generator
\* into value; on an exception roll back and raise it again
RECURSIVE Drain(_, _, _, _)
Drain(w, value, n, failAt) ==
  CHOOSE r \in
    { IF w1.res = "StopIteration" THEN [w1 EXCEPT !.res = "ok", !.coll = value]
      ELSE IF w1.res # "ok" THEN Rollback(w1, value)
      ELSE Drain(w1, Append(value, w1.h), n + 1, failAt)
      : w1 \in {MessagesFromIndex_next(w, n, failAt)} } : TRUE

RECURSIVE MsgObjs(_)
MsgObjs(value) == IF value = <<>> THEN <<>> ELSE <<Msg(Head(value))>> \o MsgObjs(Tail(value))

\* a lookup that returns the empty list
GribFileIndexedBy_getitem_ReturnsEmpty(w, a, failAt) ==
  LET index == ensure_tuple(a)
  IN  IF Len(index) # Len(w.gindex.keys) THEN Raise(w, "KeyError")
      ELSE CHOOSE r \in
        { IF w1.res # "ok" THEN w1
          ELSE CHOOSE r2 \in
            { IF w2.res # "ok" THEN w2 ELSE Return(w2, MsgObjs(w2.coll), "list")
              : w2 \in {Drain(w1, <<>>, 1, failAt)} } : TRUE
          : w1 \in {SelectAll(w, index, 1)} } : TRUE

\* GribFileIndexedBy.__getitem__
GribFileIndexedBy_getitem(w, a, failAt) ==
  LET index == ensure_tuple(a)
  IN  IF Len(index) # Len(w.gindex.keys) THEN Raise(w, "KeyError")
      ELSE CHOOSE r \in
        { IF w1.res # "ok" THEN w1
          ELSE CHOOSE r2 \in
            { IF w2.res # "ok" THEN w2
              ELSE IF Len(w2.coll) = 0 THEN Raise(w2, "KeyError")
              ELSE Return(w2, MsgObjs(w2.coll), "list")
              : w2 \in {Drain(w1, <<>>, 1, failAt)} } : TRUE
          : w1 \in {SelectAll(w, index, 1)} } : TRUE

\* a unique lookup that returns the first match whatever their number
GribFileUniquelyIndexedBy_getitem_First(w, a, failAt) ==
  CHOOSE r \in
    { IF w1.res # "ok" THEN w1 ELSE Return(w1, <<w1.ret[1]>>, "object")
      : w1 \in {GribFileIndexedBy_getitem(w, a, failAt)} } : TRUE

\* GribFileUniquelyIndexedBy.__getitem__
GribFileUniquelyIndexedBy_getitem(w, a, failAt) ==
  CHOOSE r \in
    { IF w1.res # "ok" THEN w1
      ELSE IF Len(w1.ret) > 1
        THEN Raise(Return(Dropped(w1, w1.coll), <<>>, "none"), "KeyError")
      ELSE Return(w1, <<w1.ret[1]>>, "object")
      : w1 \in {GribFileIndexedBy_getitem(w, a, failAt)} } : TRUE

\* ------------------------------------------------------------ the client
\* obj.close() by the object's class
Close(w, o) ==
  IF o.kind = "file" THEN GribFile_close(w)
  ELSE IF o.kind = "index" THEN GribFileIndexedBy_close(w)
  ELSE IF o.kind = "kit" THEN KeyIterator_close(w, o.n)
  ELSE GribMessage_close(w, o.n)

\* an __exit__ that returns True
GribAbstractItem_exit_ReturnsTrue(w, o) == [Close(w, o) EXCEPT !.bool = TRUE, !.shape = "bool"]

\* GribAbstractItem.__exit__: self.close(); return False
GribAbstractItem_exit(w, o) == [Close(w, o) EXCEPT !.bool = FALSE, !.shape = "bool"]

\* nothing constructed yet
World0 ==
  [ gfile |-> [made |-> FALSE, dead |-> FALSE, file |-> "None",
               headersOnly |-> FALSE, cache |-> FALSE],
    stream |-> [pos |-> 0, eof |-> FALSE, closed |-> FALSE, closes |-> 0],
    gindex |-> [made |-> FALSE, dead |-> FALSE, id |-> 0, keys |-> <<>>,
                cache |-> FALSE, class |-> ""],
    nindex |-> [st |-> "none", releases |-> 0],
    msgs |-> [h \in Handles |-> NoMsg],
    nat |-> [h \in Handles |-> [st |-> "unalloc", pos |-> 0, releases |-> 0]],
    kits |-> [k \in Iters |-> NoKit],
    knat |-> [k \in Iters |-> [st |-> "unalloc", pos |-> 0, deletes |-> 0]],
    ctr |-> [grib_items |-> 0, grib_messages |-> 0, grib_messages_released |-> 0,
             grib_files |-> 0, grib_files_closed |-> 0,
             grib_indices |-> 0, grib_indices_released |-> 0],
    uar |-> {},
    sel |-> <<>>, cursor |-> 0, h |-> 0,
    res |-> "ok", ret |-> <<>>, shape |-> "none", bool |-> FALSE,
    log |-> <<>>, closes |-> <<>>, coll |-> <<>> ]

\* the state w with the outcome of the call that made it forgotten
Fresh(w) ==
  [w EXCEPT !.sel = <<>>, !.cursor = 0, !.h = 0, !.res = "ok", !.ret = <<>>,
            !.shape = "none", !.bool = FALSE, !.log = <<>>, !.closes = <<>>,
            !.coll = <<>>]

\* no message content under study
NoCalc == [c |-> <<>>, op |-> "", arg |-> <<>>, out |-> <<>>]

\* no thread besides the client's
Threads == 1..NumThreads
NoThreads == [t \in Threads |-> [pc |-> "idle", tmp |-> 0]]

\* a behaviour starts in the state w, outside every with-scope, with the
\* content k under study and the threads th
Begin(w, k, th) ==
  /\ calc = k
  /\ thr = th
  /\ gfile = w.gfile
  /\ stream = w.stream
  /\ gindex = w.gindex
  /\ nindex = w.nindex
  /\ msgs = w.msgs
  /\ nat = w.nat
  /\ kits = w.kits
  /\ knat = w.knat
  /\ ctr = w.ctr
  /\ uar = w.uar
  /\ stack = <<>>
  /\ exc = FALSE
  /\ last = [op |-> "", obj |-> NoObj, arg |-> NoArg, env |-> 0, res |-> "ok", ret |-> <<>>,
             shape |-> "none", bool |-> FALSE, log |-> <<>>, closes |-> <<>>,
             coll |-> <<>>,
             pre |-> [live |-> FALSE, ctr |-> w.ctr, handles |-> 0,
                      pos |-> 0, eof |-> FALSE, exc |-> FALSE]]

Start(w) == Begin(w, NoCalc, NoThreads)

InitBase == Start(World0)

Init == InitBase

\* wrappers that refer to the file or index object keep it from teardown
Referred(from) == \E h \in Handles : msgs[h].st \in {"held", "orphan"} /\ msgs[h].from = from

\* open_grib(filename, headers_only=, cache=) without index keys
OpenFile ==
  /\ ~gfile.made /\ ~gindex.made
  /\ \E headersOnly \in BOOLEAN, cache \in BOOLEAN, opens \in BOOLEAN :
       Commit(GribFile_init(World, headersOnly, cache, opens), "open_grib", TheFile, NoArg,
              IF opens THEN 0 ELSE 1)
  /\ UNCHANGED <<stack, exc>>

\* iter(grib_file)
FileIter ==
  /\ gfile.file # "None" /\ ~gfile.dead
  /\ Commit(GribFile_iter(World), "iter", TheFile, NoArg, 0)
  /\ UNCHANGED <<stack, exc>>

\* next(grib_file); the library may fail to decode a message
FileNext ==
  /\ gfile.file # "None" /\ ~gfile.dead
  /\ \E fails \in BOOLEAN :
       /\ fails => ~stream.closed /\ stream.pos < NumMsgs
       /\ stream.closed \/ fails \/ stream.pos >= NumMsgs \/ NextHandle <= MaxHandles
       /\ Commit(GribFile_next(World, fails), "next", TheFile, NoArg, IF fails THEN 1 ELSE 0)
  /\ UNCHANGED <<stack, exc>>

\* the key tuples an index is built on, and the arguments of a lookup
KeyTuples == {<<>>, <<"paramId">>, <<"level">>, <<"paramId", "level">>}

LookupArgs ==
  {Scalar(130), Tuple(<<131>>), Tuple(<<850>>), Tuple(<<500>>),
   Tuple(<<130, 850>>), Tuple(<<131, 500>>)}

\* open_grib(filename, index_keys=, unique_indexing=, cache=)
OpenIndex ==
  /\ ~gfile.made /\ ~gindex.made
  /\ \E keys \in KeyTuples, unique \in BOOLEAN, cache \in BOOLEAN, fails \in BOOLEAN :
       /\ fails => Len(keys) > 0
       /\ Commit(GribFileIndexedBy_init(World,
                   IF unique THEN "GribFileUniquelyIndexedBy" ELSE "GribFileIndexedBy",
                   keys, cache, fails), "open_grib", TheIndex, Tuple(keys),
                 IF fails THEN 1 ELSE 0)
  /\ UNCHANGED <<stack, exc>>

\* the handles a lookup needs at most
Needed(a) ==
  LET index == ensure_tuple(a)
  IN  IF Len(index) # Len(gindex.keys) \/ gindex.id = 0 THEN 0
      ELSE Len(Matches(gindex.keys, index))

\* grib_index[a]; the library may fail at its failAt-th codes_new_from_index
Lookup ==
  /\ gindex.made /\ ~gindex.dead /\ Len(gindex.keys) > 0 /\ nindex.st # "none"
  /\ \E a \in LookupArgs, failAt \in 0..(NumMsgs + 1) :
       /\ NextHandle + Needed(a) - 1 <= MaxHandles
       /\ failAt > 0 => gindex.id # 0 /\ Len(ensure_tuple(a)) = Len(gindex.keys)
       /\ failAt <= Needed(a) + 1
       /\ Commit(IF gindex.class = "GribFileUniquelyIndexedBy"
                   THEN GribFileUniquelyIndexedBy_getitem(World, a, failAt)
                   ELSE GribFileIndexedBy_getitem(World, a, failAt),
                 "getitem", TheIndex, a, failAt)
  /\ UNCHANGED <<stack, exc>>

\* the library crashed in the last call: the process is gone
Crashed == last.res = "Crash"

\* the objects the client can call close() and __exit__ on, and those whose
\* teardown can run
Closable(o) ==
  IF o.kind = "file" THEN gfile.made /\ ~gfile.dead
  ELSE IF o.kind = "index" THEN gindex.made /\ ~gindex.dead
  ELSE IF o.kind = "msg" THEN msgs[o.n].st = "held"
  ELSE kits[o.n].st = "held"

Collectable(o) ==
  IF o.kind = "file" THEN gfile.made /\ ~gfile.dead /\ ~Referred("file")
  ELSE IF o.kind = "index" THEN gindex.made /\ ~gindex.dead /\ ~Referred("index")
  ELSE IF o.kind = "msg"
    THEN /\ msgs[o.n].st \in {"held", "orphan"}
         /\ \A k \in Iters : ~(kits[k].st \in {"held", "orphan"} /\ kits[k].msg = o.n)
  ELSE kits[o.n].st \in {"held", "orphan"}

\* after teardown the object is gone
Gone(w, o) ==
  IF o.kind = "file" THEN [w EXCEPT !.gfile.dead = TRUE]
  ELSE IF o.kind = "index" THEN [w EXCEPT !.gindex.dead = TRUE]
  ELSE IF o.kind = "msg" THEN [w EXCEPT !.msgs[o.n] = [NoMsg EXCEPT !.st = "dead"]]
  ELSE [w EXCEPT !.kits[o.n] = [NoKit EXCEPT !.st = "dead"]]

Sources == {TheFile, TheIndex}
MsgObjects == {Msg(h) : h \in Handles}

\* obj.close(), also on an object whose construction failed
DoClose(o) ==
  /\ ~Crashed
  /\ Closable(o)
  /\ Commit(Close(World, o), "close", o, NoArg, 0)
  /\ UNCHANGED <<stack, exc>>

\* obj.__exit__(...) called directly
DoExit(o) ==
  /\ Closable(o)
  /\ Commit(GribAbstractItem_exit(World, o), "__exit__", o, NoArg, 0)
  /\ UNCHANGED <<stack, exc>>

\* teardown: obj.__del__() when nothing refers to obj any more
DoDel(o) ==
  /\ ~Crashed
  /\ Collectable(o)
  /\ Commit(Gone(Close(World, o), o), "__del__", o, NoArg, 0)
  /\ UNCHANGED <<stack, exc>>

\* A client that opens a file or an index, iterates the file, and closes,
\* leaves or drops the objects it holds.
Next ==
  \/ OpenFile
  \/ FileIter
  \/ FileNext
  \/ OpenIndex
  \/ \E o \in Sources \cup MsgObjects : DoClose(o)
  \/ \E o \in Sources \cup MsgObjects : DoExit(o)
  \/ \E o \in Sources \cup MsgObjects : DoDel(o)

Spec == Init /\ [][Next]_vars

\* ---- a client at work on one message of a file
\* the file read up to its p-th message, each earlier wrapper torn down
\* before the next message is read
RECURSIVE ReadTo(_, _)
ReadTo(w, p) ==
  IF p = 0 THEN w
  ELSE CHOOSE r \in
    { GribFile_next(
        Fresh(IF p > 1 /\ w1.msgs[p - 1].st \in {"held", "orphan"}
                THEN Gone(GribMessage_close(w1, p - 1), Msg(p - 1))
                ELSE w1), FALSE)
      : w1 \in {ReadTo(w, p - 1)} } : TRUE

\* an open file and its p-th message, read with or without its data section
InitMsg ==
  \E p \in Positions, headersOnly \in BOOLEAN :
    \E w \in {ReadTo(GribFile_init(World0, headersOnly, FALSE, TRUE), p)} :
      /\ w.res = "ok"
      /\ Start(Fresh(w))

Held == {h \in Handles : msgs[h].st = "held"}
HeldIters == {k \in Iters : kits[k].st = "held"}
NextIter == 1 + Cardinality({k \in Iters : kits[k].st # "none"})

MsgKeys == {"level", "pv", "nokey"}
KeyArg(key) == [isTuple |-> TRUE, x |-> 0, v |-> <<key>>]

\* key in msg
MsgContains ==
  /\ ~Crashed
  /\ \E h \in Held, key \in MsgKeys :
       /\ Commit(GribMessage_contains(World, h, key), "contains", Msg(h), KeyArg(key), 0)
       /\ UNCHANGED <<stack, exc>>

\* msg[key]
MsgGetItem ==
  /\ ~Crashed
  /\ \E h \in Held, key \in MsgKeys :
       /\ Commit(GribMessage_getitem(World, h, key), "getitem", Msg(h), KeyArg(key), 0)
       /\ UNCHANGED <<stack, exc>>

\* msg.get(key)
MsgGet ==
  /\ ~Crashed
  /\ \E h \in Held, key \in MsgKeys :
       /\ Commit(AbstractDictionary_get(World, h, key), "get", Msg(h), KeyArg(key), 0)
       /\ UNCHANGED <<stack, exc>>

\* iter(msg)
MsgIter ==
  /\ ~Crashed
  /\ \E h \in Held :
       /\ NextIter <= MaxIters
       /\ Commit(GribMessage_iter(World, h, NextIter), "iter", Msg(h), NoArg, 0)
       /\ UNCHANGED <<stack, exc>>

\* msg.get_four_nearest_points(lat, lon, check_assertion=, use_eccodes_routine=)
MsgFourNearestPoints ==
  /\ ~Crashed
  /\ \E h \in Held, check \in BOOLEAN, useEcc \in BOOLEAN :
       /\ Commit(GribMessage_get_four_nearest_points(World, h, check, useEcc),
                 "get_four_nearest_points", Msg(h), NoArg,
                 (IF check THEN 1 ELSE 0) + (IF useEcc THEN 2 ELSE 0))
       /\ UNCHANGED <<stack, exc>>

\* msg.get_value_at(lat, lon)
MsgValueAt ==
  /\ ~Crashed
  /\ \E h \in Held :
       /\ Commit(GribMessage_get_value_at(World, h), "get_value_at", Msg(h), NoArg, 0)
       /\ UNCHANGED <<stack, exc>>

\* msg.get_value_by_index(index)
MsgValueByIndex ==
  /\ ~Crashed
  /\ \E h \in Held :
       /\ Commit(GribMessage_get_value_by_index(World, h), "get_value_by_index", Msg(h),
                 NoArg, 0)
       /\ UNCHANGED <<stack, exc>>

\* msg.to_numpy_array()
MsgToNumpyArray ==
  /\ ~Crashed
  /\ \E h \in Held :
       /\ Commit(GribMessage_to_numpy_array(World, h), "to_numpy_array", Msg(h), NoArg, 0)
       /\ UNCHANGED <<stack, exc>>

\* msg.is_level_hybrid(), msg.is_level_isobaric(), msg.is_level_surface()
MsgIsLevel ==
  /\ ~Crashed
  /\ \E h \in Held :
       /\ \/ Commit(GribMessage_is_level_hybrid(World, h), "is_level_hybrid", Msg(h), NoArg, 0)
          \/ Commit(GribMessage_is_level_isobaric(World, h), "is_level_isobaric", Msg(h),
                    NoArg, 0)
          \/ Commit(GribMessage_is_level_surface(World, h), "is_level_surface", Msg(h),
                    NoArg, 0)
       /\ UNCHANGED <<stack, exc>>

\* what reading freed memory can come to
UBOutcomes == {"name", "end", "crash"}

\* next(key_iterator)
KeyIterNext ==
  /\ ~Crashed
  /\ \E k \in HeldIters, ub \in UBOutcomes :
       /\ ub # "name" => kits[k].id # 0 /\ nat[kits[k].msg].st = "released"
       /\ Commit(KeyIterator_next(World, k, ub), "next", Kit(k), NoArg,
                 IF ub = "name" THEN 0 ELSE IF ub = "end" THEN 1 ELSE 2)
       /\ UNCHANGED <<stack, exc>>

IterObjects == {Kit(k) : k \in Iters}

\* A client that works on a message and its key iterators, and closes or
\* drops them; a crash of the library ends the process.
NextMsg ==
  \/ MsgContains
  \/ MsgGetItem
  \/ MsgGet
  \/ MsgIter
  \/ MsgFourNearestPoints
  \/ MsgValueAt
  \/ MsgValueByIndex
  \/ MsgToNumpyArray
  \/ MsgIsLevel
  \/ KeyIterNext
  \/ \E o \in MsgObjects \cup IterObjects : DoClose(o)
  \/ \E o \in MsgObjects \cup IterObjects : DoDel(o)

SpecMsg == InitMsg /\ [][NextMsg]_vars

\* ---- a client that uses the wrappers in with-statements
\* an open file with its first message, a key iterator on that message, and
\* an index on the same file
InitScope ==
  \E w \in {KeyIterator_init(
              Fresh(GribFileIndexedBy_init(
                      Fresh(ReadTo(GribFile_init(World0, FALSE, FALSE, TRUE), 1)),
                      "GribFileIndexedBy", <<"paramId">>, FALSE, FALSE)),
              1, 1)} :
    Start(Fresh(w))

AllObjects == Sources \cup MsgObjects \cup IterObjects

\* with obj as x: the statement calls obj.__enter__() and enters the body
Enter(o) ==
  /\ ~exc
  /\ Len(stack) < MaxDepth
  /\ Closable(o)
  /\ Commit(GribAbstractItem_enter(World, o), "__enter__", o, NoArg, 0)
  /\ stack' = Append(stack, o)
  /\ UNCHANGED exc

\* the body of the innermost with-statement raises
BodyRaises ==
  /\ ~exc
  /\ stack # <<>>
  /\ Commit(World, "raise", NoObj, NoArg, 0)
  /\ exc' = TRUE
  /\ UNCHANGED stack

\* the body calls close() on an object
BodyCloses(o) ==
  /\ ~exc
  /\ stack # <<>>
  /\ DoClose(o)

\* the innermost with-statement is left, by the end of its body or by the
\* exception: it calls obj.__exit__(...), and the exception goes on unless
\* __exit__ returned a true value
Leave ==
  /\ stack # <<>>
  /\ \E w \in {GribAbstractItem_exit(World, stack[Len(stack)])} :
       /\ Commit(w, "leave", stack[Len(stack)], NoArg, IF exc THEN 1 ELSE 0)
       /\ exc' = (exc /\ ~w.bool)
  /\ stack' = SubSeq(stack, 1, Len(stack) - 1)

NextScope ==
  \/ \E o \in AllObjects : Enter(o)
  \/ BodyRaises
  \/ \E o \in AllObjects : BodyCloses(o)
  \/ Leave

SpecScope == InitScope /\ [][NextScope]_vars

\* A client that opens an index, looks keys up, closes the index and drops
\* the objects it holds.
NextIndex ==
  \/ OpenIndex
  \/ Lookup
  \/ DoClose(TheIndex)
  \/ \E o \in {TheIndex} \cup MsgObjects : DoDel(o)

SpecIndex == Init /\ [][NextIndex]_vars

\* ---- a client that keeps messages while it closes what they came from
\* A client that opens a file or an index, takes messages from it, exports
\* them and closes the source and the messages in any order.
NextFrame ==
  \/ OpenFile
  \/ FileNext
  \/ OpenIndex
  \/ Lookup
  \/ MsgToNumpyArray
  \/ \E o \in Sources \cup MsgObjects : DoClose(o)

SpecFrame == Init /\ [][NextFrame]_vars

\* ---- the methods of a live message that compute from its content alone
\* everything but calc
world == <<gfile, stream, gindex, nindex, msgs, nat, kits, knat, ctr, uar, stack, exc, last,
           thr>>

\* the vertical-level types a message can report
LevelTypes == {"hybrid", "isobaricInhPa", "isobaricInPa", "surface", "heightAboveGround"}

\* messages that differ in their level keys: the level and pv keys defined
\* or not, the number of values of pv, the level flagged MISSING
KeyInputs ==
  { [Content(1) EXCEPT !.hasLevel = l, !.levelMissing = (l /\ m), !.hasPv = p,
                       !.nPv = n, !.typeOfLevel = t]
    : l \in BOOLEAN, m \in BOOLEAN, p \in BOOLEAN, n \in 0..MaxSize, t \in LevelTypes }

\* messages that differ in what makes a grid descriptor: values present,
\* packing, grid type
KindInputs ==
  { [Content(1) EXCEPT !.hasValues = v, !.packingType = pk, !.gridType = gt]
    : v \in BOOLEAN, pk \in {"grid_simple", "grid_ccsds"}, gt \in {"regular_ll", "sh"} }

\* a regular grid from 10N, 350E: per axis the number of points, the
\* increment as stored (unsigned), the scanning direction, and by how much
\* the stored last coordinate is off the one the increments lead to
Grid(nLat, dLat, latPositive, latOff, nLon, dLon, lonNegative, lonOff, minor) ==
  [Content(1) EXCEPT
     !.nLat = nLat, !.dLat = dLat, !.dLatPositive = latPositive,
     !.lat1 = 10 * UnitsPerDegree
                + (nLat - 1) * dLat * (IF latPositive THEN 1 ELSE -1) + latOff,
     !.nLon = nLon, !.dLon = dLon, !.dLonNegative = lonNegative,
     !.lon1 = (350 * UnitsPerDegree
                + (nLon - 1) * dLon * (IF lonNegative THEN -1 ELSE 1) + lonOff) % Circle,
     !.latMinorLonMajor = minor]

\* increments of 0, of 1 or 10 degrees, of a third of the circle and of
\* 1e-3 degree less; last coordinates exact and off by 1e-4 or 2e-3 degree
LatInputs ==
  { Grid(nLat, dLat, latPositive, latOff, 3, 10 * UnitsPerDegree, FALSE, 0, minor)
    : nLat \in 1..MaxPoints, dLat \in {0, UnitsPerDegree}, latPositive \in BOOLEAN,
      latOff \in {-1, 0, 2}, minor \in BOOLEAN }

LonInputs ==
  { Grid(2, UnitsPerDegree, latPositive, 0, nLon, dLon, lonNegative, lonOff, minor)
    : latPositive \in BOOLEAN, nLon \in 1..MaxPoints,
      dLon \in {0, 10 * UnitsPerDegree, 120 * UnitsPerDegree, 120 * UnitsPerDegree - 10},
      lonNegative \in BOOLEAN, lonOff \in {-20, 0, 20}, minor \in BOOLEAN }

\* The messages asked for nearest points: consistent grids of two rows,
\* scanned in either direction and axis order, in simple packing or in
\* another one; a message in another packing gets no descriptor, and its
\* nearest points come from the decoding library.
NearInputs ==
  { [Grid(2, UnitsPerDegree, latPositive, 0, MaxPoints, 10 * UnitsPerDegree,
          lonNegative, 0, minor) EXCEPT !.packingType = pk]
    : latPositive \in BOOLEAN, lonNegative \in BOOLEAN, minor \in BOOLEAN,
      pk \in {"grid_simple", "grid_ccsds"} }

CalcInputs == KeyInputs \cup KindInputs \cup LatInputs \cup LonInputs \cup NearInputs

\* a message of some content, live
InitCalc ==
  \E c \in CalcInputs : Begin(World0, [NoCalc EXCEPT !.c = c], NoThreads)

\* The call op(arg) on the message gives out.  Such a call changes nothing
\* of the message, so a behaviour makes one.
Computed(op, arg, out) == [calc EXCEPT !.op = op, !.arg = arg, !.out = out]

\* msg[key]
CalcGetItem ==
  /\ calc.op = ""
  /\ \E key \in MsgKeys : calc' = Computed("getitem", <<key>>, GetItem(calc.c, key))
  /\ UNCHANGED world

\* msg.is_level_hybrid(), msg.is_level_isobaric(), msg.is_level_surface()
CalcIsLevel ==
  /\ calc.op = ""
  /\ \/ calc' = Computed("is_level_hybrid", <<>>, IsLevelHybrid(calc.c))
     \/ calc' = Computed("is_level_isobaric", <<>>, IsLevelIsobaric(calc.c))
     \/ calc' = Computed("is_level_surface", <<>>, IsLevelSurface(calc.c))
  /\ UNCHANGED world

\* msg._get_regular_grid_info()
CalcGridInfo ==
  /\ calc.op = ""
  /\ calc' = Computed("_get_regular_grid_info", <<>>, GetRegularGridInfo(calc.c))
  /\ UNCHANGED world

\* msg.to_numpy_array()
CalcToNumpyArray ==
  /\ calc.op = ""
  /\ calc' = Computed("to_numpy_array", <<>>, ToNumpyArray(calc.c))
  /\ UNCHANGED world

\* self._get_lat_lon_index_of_four_nearest_points is not None
HasFast(c) == FourNearestPointsFunc(c) = "partial"

\* msg.get_four_nearest_points(lat, lon, check_assertion=, use_eccodes_routine=)
\* at the grid point (i, j)
CalcFourNearestPoints ==
  /\ calc.op = ""
  /\ calc.c \in NearInputs
  /\ \E i \in 0..(calc.c.nLat - 1), j \in 0..(calc.c.nLon - 1),
        check \in BOOLEAN, useEcc \in BOOLEAN, order \in Orders :
        \E cellFast \in Cells(calc.c, i, j), cellEcc \in Cells(calc.c, i, j) :
          calc' = Computed("get_four_nearest_points",
                           <<i, j, check, useEcc, cellFast, cellEcc, order>>,
                           GetFourNearestPoints(calc.c, HasFast(calc.c), check, useEcc,
                                                cellFast, cellEcc, order))
  /\ UNCHANGED world

\* msg.get_value_at(lat, lon) at the grid point (i, j)
CalcValueAt ==
  /\ calc.op = ""
  /\ calc.c \in NearInputs
  /\ \E i \in 0..(calc.c.nLat - 1), j \in 0..(calc.c.nLon - 1), order \in Orders :
        \E cellFast \in Cells(calc.c, i, j), cellEcc \in Cells(calc.c, i, j) :
          calc' = Computed("get_value_at", <<i, j>>,
                           GetValueAt(calc.c, HasFast(calc.c),
                                      GridPoint(calc.c, i, j).lat, GridPoint(calc.c, i, j).lon,
                                      cellFast, cellEcc, order))
  /\ UNCHANGED world

NextCalc ==
  \/ CalcGetItem
  \/ CalcIsLevel
  \/ CalcGridInfo
  \/ CalcToNumpyArray
  \/ CalcFourNearestPoints
  \/ CalcValueAt

SpecCalc == InitCalc /\ [][NextCalc]_vars

\* ---- threads that each construct a GribMessage on a handle of their own
\* and close it
\* The statement "global x; x += 1" is a load of x, an addition and a store
\* of x; another thread can run between the load and the store.  A thread
\* goes through GribAbstractItem.__init__ (_grib_items), GribMessage.__init__
\* (_grib_messages) and GribMessage.close (codes_release, then
\* _grib_messages_released).
Steps ==
  << "load_items", "store_items", "load_messages", "store_messages",
     "release", "load_released", "store_released", "done" >>
After(pc) == Steps[1 + CHOOSE k \in 1..(Len(Steps) - 1) : Steps[k] = pc]
CounterOf(pc) ==
  IF pc \in {"load_items", "store_items"} THEN "grib_items"
  ELSE IF pc \in {"load_messages", "store_messages"} THEN "grib_messages"
  ELSE "grib_messages_released"

\* the library has handed out one message handle per thread
InitThreads ==
  Begin([World0 EXCEPT !.nat = [h \in Handles |->
                          IF h \in Threads THEN [st |-> "live", pos |-> 1, releases |-> 0]
                          ELSE @[h]]],
        NoCalc, [t \in Threads |-> [pc |-> "load_items", tmp |-> 0]])

\* the thread loads the counter
ThreadLoad(t) ==
  /\ thr[t].pc \in {"load_items", "load_messages", "load_released"}
  /\ thr' = [thr EXCEPT ![t] = [pc |-> After(thr[t].pc), tmp |-> ctr[CounterOf(thr[t].pc)]]]
  /\ UNCHANGED <<gfile, stream, gindex, nindex, msgs, nat, kits, knat, ctr, uar, stack, exc,
                 last, calc>>

\* the thread stores the counter, one more than it loaded; after the store of
\* _grib_messages the constructor sets the wrapper's fields (headers_only)
ThreadStore(t) ==
  /\ thr[t].pc \in {"store_items", "store_messages", "store_released"}
  /\ ctr' = [ctr EXCEPT ![CounterOf(thr[t].pc)] = thr[t].tmp + 1]
  /\ msgs' = IF thr[t].pc = "store_messages"
               THEN [msgs EXCEPT ![t] = [NoMsg EXCEPT !.st = "held", !.id = t, !.from = "file",
                                                     !.class = "GribMessage",
                                                     !.headersOnly = TRUE]]
               ELSE msgs
  /\ thr' = [thr EXCEPT ![t].pc = After(thr[t].pc)]
  /\ UNCHANGED <<gfile, stream, gindex, nindex, nat, kits, knat, uar, stack, exc, last, calc>>

\* close(): ecc.codes_release(_id); self._id = None
ThreadRelease(t) ==
  /\ thr[t].pc = "release"
  /\ nat' = [nat EXCEPT ![t].st = "released", ![t].releases = @ + 1]
  /\ msgs' = [msgs EXCEPT ![t].id = 0]
  /\ thr' = [thr EXCEPT ![t].pc = After(thr[t].pc)]
  /\ UNCHANGED <<gfile, stream, gindex, nindex, kits, knat, ctr, uar, stack, exc, last, calc>>

NextThreads ==
  \/ \E t \in Threads : ThreadLoad(t)
  \/ \E t \in Threads : ThreadStore(t)
  \/ \E t \in Threads : ThreadRelease(t)

SpecThreads == InitThreads /\ [][NextThreads]_vars

\* -------------------------------------------------------------- properties
CloseOps == {"close", "__exit__", "__del__"}

\* the library call that releases the resource of o
ReleaseCall(o) ==
  IF o.kind = "file" THEN Call("close", "", 0)
  ELSE IF o.kind = "index" THEN Call("codes_index_release", "", 0)
  ELSE IF o.kind = "kit" THEN Call("codes_keys_iterator_delete", "", o.n)
  ELSE Call("codes_release", "", o.n)

\* the counters after o's resource was released once
Released(c, o) ==
  IF o.kind = "file" THEN [c EXCEPT !.grib_files_closed = @ + 1]
  ELSE IF o.kind = "index" THEN [c EXCEPT !.grib_indices_released = @ + 1]
  ELSE [c EXCEPT !.grib_messages_released = @ + 1]

\* C1: for GribMessage, GribFileIndexedBy and GribFile no sequence of close
\* calls (close(), __exit__, teardown) releases the library resource more than
\* once: each handle, the index and the stream are released at most once and
\* the released/closed counters count these releases; a close on a live object
\* makes the one release call and adds one to the one counter; every later
\* close makes no library call and changes no counter.
C1_CloseIdempotent ==
  /\ \A h \in Handles : nat[h].releases <= 1
  /\ nindex.releases <= 1
  /\ stream.closes <= 1
  /\ ctr.grib_messages_released = Cardinality({h \in Handles : nat[h].releases > 0})
  /\ ctr.grib_indices_released = nindex.releases
  /\ ctr.grib_files_closed = stream.closes
  /\ (last.op \in CloseOps /\ last.obj.kind \in {"file", "index", "msg"}) =>
       /\ last.res = "ok"
       /\ IF last.pre.live
            THEN /\ last.log = <<ReleaseCall(last.obj)>>
                 /\ ctr = Released(last.pre.ctr, last.obj)
            ELSE /\ last.log = <<>>
                 /\ ctr = last.pre.ctr

\* C1 happens: close() on a message whose handle an earlier close released
C1_Witness ==
  /\ last.op = "close"
  /\ last.obj.kind = "msg"
  /\ ~last.pre.live
  /\ nat[last.obj.n].releases = 1

\* the object never got its resource: its constructor raised before it
\* counted a file opened or an index created
FailedInit(o) ==
  IF o.kind = "file" THEN gfile.made /\ last.pre.ctr.grib_files = 0
  ELSE IF o.kind = "index" THEN gindex.made /\ last.pre.ctr.grib_indices = 0
  ELSE FALSE

\* C7: GribFileIndexedBy built on an empty key tuple raises before the library
\* is asked for an index; and a close (close(), __exit__, teardown) of a
\* GribFile or GribFileIndexedBy whose constructor raised before it got its
\* resource raises nothing, makes no library call and changes no counter.
C7_CloseAfterFailedInit ==
  /\ (last.op = "open_grib" /\ last.obj = TheIndex /\ last.arg.v = <<>>) =>
       /\ last.res = "Exception"
       /\ last.log = <<>>
       /\ nindex.st = "none"
       /\ gindex.id = 0
  /\ (last.op = "open_grib" /\ last.res # "ok") =>
       /\ ~Live(last.obj)
       /\ ctr = [last.pre.ctr EXCEPT !.grib_items = @ + 1]
  /\ (last.op \in CloseOps /\ FailedInit(last.obj)) =>
       /\ last.res = "ok"
       /\ last.log = <<>>
       /\ ctr = last.pre.ctr
       /\ uar = {}

\* C7 happens: close() on an index object whose construction on an empty key
\* tuple raised
C7_Witness ==
  /\ last.op = "close"
  /\ last.obj = TheIndex
  /\ FailedInit(TheIndex) /\ gindex.keys = <<>>

\* what next(grib_file) on an open file must come to, from the state before
\* the call and the library's outcome
NextExpected ==
  IF last.env = 1 THEN "CodesInternalError"
  ELSE IF last.pre.pos >= NumMsgs THEN "StopIteration"
  ELSE IF ~gfile.headersOnly /\ FourNearestPointsFunc(Content(last.pre.pos + 1)) = "ValueError"
    THEN "ValueError"
  ELSE "ok"

\* C8: iteration over a GribFile is one pass.  iter() returns the file object
\* and leaves the stream where it is.  On an open file each next() makes
\* exactly one decoding call on the stream; when that returns a handle and the
\* wrapper is built, the call yields one new wrapper of the stream's next
\* message, of the cache-enabled class exactly if the file's cache flag is set
\* and with the file's headers-only flag; when the stream is at its end the
\* call signals exhaustion, and so does every later next() on the open file.
\* No next() yields a message once the end was reported, and the messages are
\* handed out in file order.
C8_FileIterationOnePass ==
  /\ last.op = "iter" =>
       /\ last.res = "ok" /\ last.ret = <<TheFile>> /\ last.log = <<>>
       /\ stream.pos = last.pre.pos /\ stream.eof = last.pre.eof
  /\ (last.op = "next" /\ last.pre.live) =>
       /\ Len(last.log) = 1
       /\ last.log[1].c = "codes_grib_new_from_file"
       /\ last.res = NextExpected
       /\ last.pre.eof => last.res = "StopIteration"
       /\ last.res = "StopIteration" =>
            /\ last.ret = <<>> /\ stream.eof
            /\ stream.pos = last.pre.pos
            /\ NextHandle - 1 = last.pre.handles
       /\ last.res = "ok" =>
            LET h == last.log[1].v
            IN  /\ h = last.pre.handles + 1
                /\ last.ret = <<Msg(h)>> /\ last.shape = "object"
                /\ nat[h].st = "live" /\ nat[h].pos = last.pre.pos + 1
                /\ stream.pos = last.pre.pos + 1
                /\ msgs[h].st = "held" /\ msgs[h].id = h /\ msgs[h].from = "file"
                /\ msgs[h].class = (IF gfile.cache THEN "GribMessageWithCache"
                                    ELSE "GribMessage")
                /\ msgs[h].headersOnly = gfile.headersOnly
  /\ (last.op = "next" /\ ~last.pre.live) =>
       last.res = "ValueError" /\ last.log = <<>> /\ last.ret = <<>>
  /\ (last.op = "next" /\ last.pre.eof) => last.ret = <<>>
  /\ \A h1, h2 \in Handles :
       (h1 < h2 /\ nat[h2].st # "unalloc") => nat[h1].pos < nat[h2].pos

\* C8 happens: next() on an open file that has already reported its end
C8_Witness ==
  /\ last.op = "next"
  /\ last.pre.live /\ last.pre.eof
  /\ last.res = "StopIteration"
  /\ last.pre.handles = NumMsgs

\* ---- lookups: the last call is grib_index[a]
\* the value tuple of the lookup and the file's messages that match it
LookupIndex == ensure_tuple(last.arg)
LookupMatches == Matches(gindex.keys, LookupIndex)

\* the lookup reached the selects: the index was live and the tuple fits
LookupRuns == last.pre.live /\ Len(LookupIndex) = Len(gindex.keys)

\* the library calls of the lookup after its selects; among them the
\* codes_new_from_index calls, and the handles these yielded
LookupTail == SubSeq(last.log, Len(gindex.keys) + 1, Len(last.log))
LookupNews == SelectSeq(LookupTail, LAMBDA e : e.c = "codes_new_from_index")
LookupYielded ==
  LET got == SelectSeq(LookupNews, LAMBDA e : e.v > 0)
  IN  [i \in 1..Len(got) |-> got[i].v]

\* the first matching message whose wrapper cannot be built
FirstBad ==
  LET m == LookupMatches
      bad == {i \in 1..Len(m) : FourNearestPointsFunc(Content(m[i])) = "ValueError"}
  IN  IF bad = {} THEN Len(m) + 1 ELSE CHOOSE i \in bad : \A j \in bad : i <= j

\* what a lookup that reached the selects must come to: the exception (or
\* "ok") and the number of wrappers collected
LookupExpected ==
  IF last.env > 0 /\ last.env <= FirstBad
    THEN [res |-> "CodesInternalError", n |-> last.env - 1]
  ELSE IF FirstBad <= Len(LookupMatches)
    THEN [res |-> "ValueError", n |-> FirstBad - 1]
  ELSE IF Len(LookupMatches) = 0 THEN [res |-> "KeyError", n |-> 0]
  ELSE [res |-> "ok", n |-> Len(LookupMatches)]

\* C2: when obtaining or decoding the k-th matching message raises during a
\* lookup, the call ends with that same exception, and every wrapper it had
\* collected (the first k-1 messages) has been closed by then: close() was
\* called on each, in order, each handle is released, once, and the release
\* counter has grown by their number.
C2_LookupRollback ==
  (last.op = "getitem" /\ last.res \notin {"ok", "KeyError"}) =>
    /\ last.ret = <<>>
    /\ last.closes = MsgObjs(last.coll)
    /\ \A i \in 1..Len(last.coll) :
         /\ nat[last.coll[i]].st = "released"
         /\ nat[last.coll[i]].releases = 1
         /\ msgs[last.coll[i]].id = 0
    /\ ctr.grib_messages_released = last.pre.ctr.grib_messages_released + Len(last.coll)
    /\ IF LookupRuns
         THEN /\ last.res = LookupExpected.res
              /\ Len(last.coll) = LookupExpected.n
              /\ last.coll = SubSeq(LookupYielded, 1, LookupExpected.n)
         ELSE last.res = "ValueError" /\ last.coll = <<>>

\* C2 happens: the library failed after the lookup had collected two messages
C2_Witness ==
  /\ last.op = "getitem"
  /\ last.res = "CodesInternalError"
  /\ Len(last.coll) >= 2
  /\ last.env = 3

\* C5: a lookup with a value tuple as long as the key tuple selects each key
\* with its value on the library's index, in key order and once per key, and
\* only then reads messages from the index, until the index reports its end.
\* GribFileIndexedBy returns the list of the messages the index yielded, in
\* that order, all live, and raises KeyError exactly if the index yielded
\* none.  A tuple of another length raises KeyError and no library call is
\* made.
C5_LookupSelectsThenDrains ==
  last.op = "getitem" =>
    /\ Len(LookupIndex) # Len(gindex.keys) => last.res = "KeyError" /\ last.log = <<>>
    /\ LookupRuns =>
         /\ Len(last.log) > Len(gindex.keys)
         /\ \A k \in 1..Len(gindex.keys) :
              last.log[k] = Call("codes_index_select", gindex.keys[k], LookupIndex[k])
         /\ Len(LookupNews) > 0
         /\ \A k \in 1..Len(LookupTail) :
              IF k <= Len(LookupNews)
                THEN /\ LookupTail[k].c = "codes_new_from_index"
                     /\ LookupTail[k].v <= 0 => k = Len(LookupNews)
                ELSE /\ LookupTail[k].c = "codes_release"
                     /\ last.res \notin {"ok", "KeyError"}
         /\ \A i \in 1..Len(LookupYielded) :
              i <= Len(LookupMatches) /\ nat[LookupYielded[i]].pos = LookupMatches[i]
         /\ last.res \in {"ok", "KeyError"} =>
              /\ LookupNews[Len(LookupNews)].v = 0
              /\ Len(LookupYielded) = Len(LookupMatches)
         /\ gindex.class = "GribFileIndexedBy" =>
              /\ last.res = LookupExpected.res
              /\ last.res = "KeyError" <=>
                   (LookupNews[Len(LookupNews)].v = 0 /\ LookupYielded = <<>>)
              /\ last.res = "ok" =>
                   /\ last.shape = "list"
                   /\ last.ret = MsgObjs(LookupYielded)
                   /\ \A i \in 1..Len(LookupYielded) :
                        /\ msgs[LookupYielded[i]].st = "held"
                        /\ msgs[LookupYielded[i]].id = LookupYielded[i]
                        /\ nat[LookupYielded[i]].st = "live"

\* C5 happens: a lookup on two keys returned a list
C5_Witness ==
  /\ last.op = "getitem"
  /\ gindex.class = "GribFileIndexedBy"
  /\ Len(gindex.keys) = 2
  /\ last.res = "ok"
  /\ Len(last.ret) >= 1

\* C6: a GribFileUniquelyIndexedBy lookup returns a message only when exactly
\* one message matches the selection, and then it returns that message itself,
\* not a list; when none or more than one matches it raises and returns
\* nothing.
C6_UniqueLookup ==
  (last.op = "getitem" /\ gindex.class = "GribFileUniquelyIndexedBy") =>
    /\ last.res = "ok" =>
         /\ LookupRuns
         /\ Len(LookupMatches) = 1
         /\ LookupYielded = <<last.ret[1].n>>
         /\ last.shape = "object"
         /\ last.ret = <<Msg(LookupYielded[1])>>
         /\ nat[LookupYielded[1]].pos = LookupMatches[1]
         /\ msgs[LookupYielded[1]].id = LookupYielded[1]
    /\ last.res # "ok" => last.ret = <<>>
    /\ (LookupRuns /\ Len(LookupMatches) # 1) => last.res # "ok"
    /\ (LookupRuns /\ LookupExpected.res = "ok") =>
         last.res = (IF Len(LookupMatches) = 1 THEN "ok" ELSE "KeyError")
    /\ (LookupRuns /\ LookupExpected.res # "ok") => last.res = LookupExpected.res

\* C6 happens: a unique lookup found two matches and raised
C6_Witness ==
  /\ last.op = "getitem"
  /\ gindex.class = "GribFileUniquelyIndexedBy"
  /\ Len(LookupYielded) >= 2
  /\ last.log[Len(last.log)].v = 0
  /\ last.res = "KeyError"

\* ---- messages and their key iterators
MsgOps ==
  {"contains", "getitem", "get", "iter", "get_four_nearest_points", "get_value_at",
   "get_value_by_index", "to_numpy_array", "is_level_hybrid", "is_level_isobaric",
   "is_level_surface"}

\* C3: after close() every operation on a GribMessage (contains, [key], get,
\* iteration over its keys, get_four_nearest_points, get_value_at,
\* get_value_by_index, to_numpy_array, the level predicates) is rejected with
\* the 'already released' ValueError and returns nothing, whatever was done
\* with the message before.
C3_ClosedMessageRejectsAll ==
  (last.obj.kind = "msg" /\ last.op \in MsgOps /\ ~last.pre.live) =>
    /\ last.res = "ValueError"
    /\ last.shape = "none"

\* C4: the library is never called on a released resource: not with a
\* released message, index or key-iterator handle, not on a closed stream,
\* and no key iterator is advanced once its message was released: next() on
\* such an iterator raises the 'already released' ValueError and makes no
\* library call.
C4_NoCallOnReleased ==
  /\ uar = {}
  /\ (last.op = "next" /\ last.obj.kind = "kit"
        /\ nat[kits[last.obj.n].msg].st = "released") =>
       last.res = "ValueError" /\ last.log = <<>>

\* C9: a key iterator consumed until next() signals exhaustion has deleted
\* the library's iterator at that call, once; a close() or teardown after
\* that, like every close of an iterator that owns nothing, makes no library
\* call; the close or teardown of an iterator abandoned before its end
\* deletes the library's iterator, once; and no library iterator is ever
\* deleted twice or left behind by a torn-down wrapper.
C9_KeyIteratorReleasedOnce ==
  /\ \A k \in Iters :
       /\ knat[k].deletes <= 1
       /\ knat[k].deletes = 1 <=> knat[k].st = "released"
       /\ kits[k].id # 0 => kits[k].id = k /\ knat[k].st = "live"
       /\ kits[k].st = "dead" => knat[k].st \in {"unalloc", "released"}
  /\ (last.obj.kind = "kit" /\ last.op = "next" /\ last.res = "StopIteration") =>
       /\ last.pre.live
       /\ last.log[Len(last.log)] = Call("codes_keys_iterator_delete", "", last.obj.n)
       /\ knat[last.obj.n].st = "released"
       /\ knat[last.obj.n].deletes = 1
       /\ kits[last.obj.n].id = 0
       /\ last.closes = <<last.obj>>
  /\ (last.obj.kind = "kit" /\ last.op = "next" /\ last.res = "ok") =>
       /\ knat[last.obj.n].st = "live"
       /\ kits[last.obj.n].id # 0
  /\ (last.obj.kind = "kit" /\ last.op \in CloseOps) =>
       /\ last.res = "ok"
       /\ last.log = IF last.pre.live
                       THEN <<Call("codes_keys_iterator_delete", "", last.obj.n)>>
                       ELSE <<>>
       /\ last.pre.live => knat[last.obj.n].deletes = 1

\* C9 happens: next() on an iterator of a live message signals exhaustion
\* after it yielded every key name
C9_Witness ==
  /\ last.op = "next" /\ last.obj.kind = "kit"
  /\ last.res = "StopIteration"
  /\ last.env = 0
  /\ knat[last.obj.n].deletes = 1
  /\ uar = {}

\* ---- with-statements
\* C10: for a message, a file, an index and a key iterator alike, entering a
\* with-statement returns the object itself and does nothing else; leaving
\* it, at the end of the body or by an exception, calls close() on the object
\* exactly once, so that the object owns nothing afterwards, and returns
\* False: an exception raised in the body goes on after the exit.
C10_ScopeClosesOnce ==
  /\ last.op = "__enter__" =>
       /\ last.res = "ok"
       /\ last.ret = <<last.obj>> /\ last.shape = "object"
       /\ last.log = <<>> /\ last.closes = <<>>
       /\ ctr = last.pre.ctr
       /\ Live(last.obj) = last.pre.live
       /\ stack # <<>> /\ stack[Len(stack)] = last.obj
  /\ last.op = "leave" =>
       /\ last.res = "ok"
       /\ last.closes = <<last.obj>>
       /\ ~Live(last.obj)
       /\ last.log = IF last.pre.live THEN <<ReleaseCall(last.obj)>> ELSE <<>>
       /\ last.shape = "bool" /\ last.bool = FALSE
       /\ last.env = (IF last.pre.exc THEN 1 ELSE 0)
       /\ exc = last.pre.exc

\* C10 happens: an exception raised in the body of two nested with-statements
\* has left the inner one, which closed a live object
C10_Witness ==
  /\ last.op = "leave"
  /\ last.pre.exc /\ exc
  /\ last.pre.live
  /\ Len(stack) = 1
\* C11: msg[key] on a live message raises KeyError exactly when the key is
\* not defined; for a defined key, MISSING or not, it returns a scalar if
\* the key holds exactly one value and a sequence for every other number of
\* values.
C11_GetItemByCardinality ==
  calc.op = "getitem" =>
    LET key == calc.arg[1]
    IN  /\ (calc.out.res = "KeyError") <=> ~Defined(calc.c, key)
        /\ Defined(calc.c, key) =>
              /\ calc.out.res = "ok"
              /\ calc.out.shape = IF Size(calc.c, key) = 1 THEN "value" ELSE "array"

\* C17: each level predicate answers true only for a message of the
\* corresponding level type in which a level value is present, and
\* is_level_hybrid only if the pv key is present too.
C17_LevelPredicates ==
  /\ calc.op \in {"is_level_hybrid", "is_level_isobaric", "is_level_surface"}
       /\ calc.out = TRUE
       => Defined(calc.c, "level")
  /\ calc.op = "is_level_hybrid" /\ calc.out = TRUE
       => calc.c.typeOfLevel = "hybrid" /\ Defined(calc.c, "pv")
  /\ calc.op = "is_level_isobaric" /\ calc.out = TRUE
       => calc.c.typeOfLevel \in {"isobaricInhPa", "isobaricInPa"}
  /\ calc.op = "is_level_surface" /\ calc.out = TRUE
       => calc.c.typeOfLevel = "surface"
\* 1e-4 degree
Tolerance == UnitsPerDegree \div 10000
\* the distance of the angle x from 0 on the circle
CircleDistance(x) ==
  LET r == x % Circle IN IF r <= Circle - r THEN r ELSE Circle - r
\* the grid is consistent: at least two points per axis, and the first
\* coordinate and the increments lead to the last one within 1e-4 degree
Consistent(c) ==
  LET g == GridInfo(c)
  IN  /\ g.nLat >= 2
      /\ g.nLon >= 2
      /\ Abs(g.lat0 + (g.nLat - 1) * g.dLat - g.lat1) <= Tolerance
      /\ CircleDistance(g.lon0 + (g.nLon - 1) * g.dLon - g.lon1) <= Tolerance

\* C12: for a message with values, simple packing and a regular lat/lon
\* grid, _get_regular_grid_info returns a descriptor exactly when the grid is
\* consistent within 1e-4 degree and raises ValueError otherwise; without
\* simple packing or without a regular lat/lon grid it returns None.
C12_GridAcceptedIffConsistent ==
  calc.op = "_get_regular_grid_info" =>
    LET c == calc.c
    IN  /\ c.hasValues /\ c.packingType = "grid_simple" /\ c.gridType = "regular_ll"
             => calc.out = IF Consistent(c) THEN "info" ELSE "ValueError"
        /\ c.packingType # "grid_simple" \/ c.gridType # "regular_ll"
             => calc.out = "None"

\* the grid point (i-th latitude, j-th longitude, from 0, in scanning
\* order) of a message: its coordinates and its index in the raw values
PointLat(c, i) == GridInfo(c).lat0 + i * GridInfo(c).dLat
PointLon(c, j) == GridInfo(c).lon0 + j * GridInfo(c).dLon
PointIndex(c, i, j) ==
  IF GridInfo(c).latMajor THEN i * c.nLon + j ELSE j * c.nLat + i

\* C15: for a message with a valid descriptor to_numpy_array returns the
\* values in latitude-major layout: element [i][j] is the raw value of the
\* grid point whose latitude is lat_coords[i] and whose longitude is
\* lon_coords[j] modulo 360 (within 1e-4 degree), the wrapped column of a
\* circular axis included; a message without descriptor yields None.
C15_ArrayMatchesCoordinates ==
  calc.op = "to_numpy_array" =>
    LET c == calc.c
        out == calc.out
    IN  /\ GetRegularGridInfo(c) = "None" => out.res = "ok" /\ out.shape = "None"
        /\ GetRegularGridInfo(c) = "info" =>
              /\ out.res = "ok" /\ out.shape = "arrays"
              /\ Len(out.data) = Len(out.lat.num)
              /\ \A i \in 1..Len(out.data) :
                    /\ Len(out.data[i]) = Len(out.lon.num)
                    /\ \A j \in 1..Len(out.data[i]) :
                          \E pi \in 0..(c.nLat - 1), pj \in 0..(c.nLon - 1) :
                            /\ out.data[i][j] = StoredValue(PointIndex(c, pi, pj))
                            /\ Abs(out.lat.num[i] - PointLat(c, pi) * out.lat.den)
                                 <= Tolerance * out.lat.den
                            /\ CircleDistance(out.lon.num[j] - PointLon(c, pj) * out.lon.den)
                                 <= Tolerance * out.lon.den

\* C16: the latitude and longitude sequences to_numpy_array returns for a
\* descriptor that passed validation are strictly increasing, and the first
\* longitude lies in [-180, 180).
C16_CoordinatesIncrease ==
  calc.op = "to_numpy_array" /\ calc.out.res = "ok" /\ calc.out.shape = "arrays" =>
    LET lat == calc.out.lat
        lon == calc.out.lon
    IN  /\ \A i \in 1..(Len(lat.num) - 1) : lat.num[i] < lat.num[i + 1]
        /\ \A j \in 1..(Len(lon.num) - 1) : lon.num[j] < lon.num[j + 1]
        /\ -180 * UnitsPerDegree * lon.den <= lon.num[1]
        /\ lon.num[1] < 180 * UnitsPerDegree * lon.den
\* C13: get_value_at at a grid point returns the value stored for that grid
\* point, whether the neighbours come from the descriptor-driven routine or
\* from the decoding library, in whatever order the library lists them.
C13_ExactAtGridPoints ==
  calc.op = "get_value_at" =>
    /\ calc.out.res = "ok"
    /\ calc.out.value.n =
         StoredValue(PointIndex(calc.c, calc.arg[1], calc.arg[2])) * calc.out.value.d

\* the indices of the four points in a pair of pairs
PointIndices(pairs) == {pairs[k].items[n].index : k \in 1..2, n \in 1..2}

\* C14: with check_assertion=True and the fast routine available,
\* get_four_nearest_points returns the fast routine's pair of pairs whenever
\* the fast routine and the decoding library give the same set of four
\* point indices, and fails the assertion whenever the two sets differ.
C14_CrossCheck ==
  calc.op = "get_four_nearest_points" /\ calc.arg[3] /\ ~calc.arg[4] /\ HasFast(calc.c) =>
    LET fastPoints == FourNearestPointsInRectangularGrid(calc.c, calc.arg[5])
        eccPoints == EccodesRoutine(calc.c, calc.arg[6], calc.arg[7], 0)
    IN  IF PointIndices(fastPoints) = PointIndices(eccPoints)
          THEN calc.out.res = "ok" /\ calc.out.points = fastPoints
          ELSE calc.out.res = "AssertionError"

\* the message handles the library handed out during the last call
HandedOut == {h \in Handles : h > last.pre.handles /\ nat[h].st # "unalloc"}

\* C18: when the library hands out a message handle (in GribFile.__next__ or
\* during an index lookup) and the construction of its GribMessage raises
\* ValueError, that handle, like the messages collected before it, has been
\* released when the error reaches the caller.
C18_NoLeakOnFailedConstruction ==
  (last.op \in {"next", "getitem"} /\ last.res = "ValueError") =>
    \A h \in HandedOut : nat[h].st = "released"

\* C19: when a lookup on a GribFileUniquelyIndexedBy fails because two or
\* more messages matched, every message collected for the call has been
\* released when the error reaches the caller.
C19_AmbiguousLookupReleasesAll ==
  (last.op = "getitem" /\ gindex.class = "GribFileUniquelyIndexedBy"
     /\ last.res = "KeyError" /\ Len(last.coll) >= 2) =>
    /\ HandedOut = {last.coll[k] : k \in 1..Len(last.coll)}
    /\ \A h \in HandedOut : nat[h].st = "released"

\* the wrappers the threads have constructed, and the handles released
Constructed == Cardinality({t \in Threads : thr[t].pc \notin {"load_items", "store_items",
                                                              "load_messages", "store_messages"}})
ReleasedHandles == Cardinality({h \in Handles : nat[h].st = "released"})

\* C20: the counters are updated atomically, so no update of threads that
\* construct and close wrappers on distinct handles is lost: when all have
\* finished each counter equals the number of constructions or releases, and
\* the released counter never exceeds the created one.
C20_CountersExact ==
  /\ ctr.grib_messages_released <= ctr.grib_messages
  /\ (\A t \in Threads : thr[t].pc = "done") =>
        /\ ctr.grib_items = Constructed
        /\ ctr.grib_messages = Constructed
        /\ ctr.grib_messages_released = ReleasedHandles
        /\ ctr.grib_files = 0 /\ ctr.grib_files_closed = 0
        /\ ctr.grib_indices = 0 /\ ctr.grib_indices_released = 0

\* whether what the message of handle h came from has been closed
SourceClosed(h) == IF msgs[h].from = "file" THEN stream.closed ELSE gindex.id = 0

\* a step that is a close (close(), __exit__ or teardown) of a wrapper of
\* the given kinds
Closes(kinds) == last'.op \in CloseOps /\ last'.obj.kind \in kinds

\* C21: closing a wrapper changes only that wrapper's own resource.  A
\* close of a message leaves the stream, the file object, the index and every
\* other message and handle as they were, and calls the library for nothing
\* but the release of its own handle; a close of a file or an index leaves
\* every message wrapper and every message handle as it was.  A message
\* that has not been closed itself stays usable whether or not its source
\* is closed: its export reads a handle that was not released and has the
\* outcome its content determines.
C21_CloseChangesOnlyItsOwn ==
  [][ /\ Closes({"msg"}) =>
           /\ gfile' = gfile /\ stream' = stream
           /\ gindex' = gindex /\ nindex' = nindex
           /\ kits' = kits /\ knat' = knat
           /\ \A h \in Handles \ {last'.obj.n} : msgs'[h] = msgs[h] /\ nat'[h] = nat[h]
           /\ \A e \in 1..Len(last'.log) : last'.log[e] = ReleaseCall(last'.obj)
           /\ last'.closes = <<last'.obj>>
      /\ Closes({"file", "index"}) =>
           /\ msgs' = msgs /\ nat' = nat
           /\ kits' = kits /\ knat' = knat
           /\ \A e \in 1..Len(last'.log) : last'.log[e] = ReleaseCall(last'.obj)
           /\ last'.closes = <<last'.obj>>
           /\ \A h \in Handles : msgs'[h].id # 0 => Live(Msg(h)) /\ nat'[h].st = "live"
      /\ (last'.op = "to_numpy_array" /\ msgs[last'.obj.n].id # 0) =>
           /\ nat[last'.obj.n].st = "live"
           /\ uar' = uar
           /\ msgs' = msgs /\ nat' = nat
           /\ last'.res = (IF GetRegularGridInfo(Content(nat[last'.obj.n].pos)) = "ValueError"
                             THEN "ValueError" ELSE "ok")
    ]_vars

\* C21 happens: a message is exported after the source it came from was
\* closed and after another message of that source was closed
C21_Witness ==
  /\ last.op = "to_numpy_array" /\ last.res = "ok"
  /\ last.pre.live
  /\ SourceClosed(last.obj.n)
  /\ \E h \in Handles \ {last.obj.n} :
       /\ msgs[h].st = "held" /\ msgs[h].id = 0
       /\ msgs[h].from = msgs[last.obj.n].from
====
